---- MODULE Spec2Model ----
(***************************************************************************)
(* Model of the column-layout store of the DEVONthink MCP server:          *)
(*   src/src/shared/plist/reader.ts        (PlistBuddy / plistlib helpers) *)
(*   src/src/tools/custom/column-layout.ts (get/copy_column_layout)        *)
(*                                                                         *)
(* Strings the code inspects character by character (entity names) are     *)
(* sequences of one-character strings.  A preference key "<suffix>-<base>" *)
(* is the pair <<i, base>>, i the index of the suffix in LAYOUT_SUFFIXES;  *)
(* no layout prefix is a prefix of another, so the pair is the key.  The   *)
(* content of the preference file is a function from the keys it holds.    *)
(***************************************************************************)
EXTENDS Integers, Sequences, FiniteSets, TLC

VARIABLES plist, last, procs, input

vars == <<plist, last, procs, input>>

----------------------------------------------------------------------------
(* Bounds of the model *)

\* the most layout keys of the entities below in the store when the
\* application adds one or a client calls a tool
MaxKeys == 2

----------------------------------------------------------------------------
(* Names *)

Outline == <<"O", "u", "t", "l", "i", "n", "e">>

NameJ == <<"J">>
NameLowerJ == <<"j">>
NameJa == <<"J", "a">>
NameOutlineJ == Outline \o <<"J">>
NameA == <<"A">>

\* an argument that was not supplied (undefined)
None == <<"?none">>

\* String.prototype.toLowerCase on one character
LowerChar(c) ==
    CASE c = "A" -> "a"
      [] c = "J" -> "j"
      [] c = "O" -> "o"
      [] OTHER -> c

toLowerCase(s) == [i \in 1..Len(s) |-> LowerChar(s[i])]

\* String.prototype.includes
includes(hay, needle) ==
    \E i \in 0..(Len(hay) - Len(needle)) :
        SubSeq(hay, i + 1, i + Len(needle)) = needle

\* str.startswith
startswith(s, p) == Len(s) >= Len(p) /\ SubSeq(s, 1, Len(p)) = p

Digits == <<"0", "1", "2", "3", "4", "5", "6", "7", "8", "9">>

\* code points of the characters of the names (Python orders str by code point)
CodePoints ==
    [c \in {Digits[i] : i \in 1..10} |-> 47 + (CHOOSE i \in 1..10 : Digits[i] = c)]
    @@ ("A" :> 65) @@ ("J" :> 74) @@ ("O" :> 79) @@ ("a" :> 97) @@ ("e" :> 101)
    @@ ("i" :> 105) @@ ("j" :> 106) @@ ("l" :> 108) @@ ("n" :> 110)
    @@ ("o" :> 111) @@ ("t" :> 116) @@ ("u" :> 117)

Code(c) == CodePoints[c]

\* the order of Python's str: by code point, a proper prefix first
RECURSIVE StrLess(_, _)
StrLess(a, b) ==
    IF a = <<>> THEN b # <<>>
    ELSE IF b = <<>> THEN FALSE
    ELSE IF Code(Head(a)) # Code(Head(b)) THEN Code(Head(a)) < Code(Head(b))
    ELSE StrLess(Tail(a), Tail(b))

\* the blocks <<k, names>> of a set one after the other, from block k on
RECURSIVE Concat(_, _)
Concat(blocks, k) ==
    IF k >= Cardinality(blocks) THEN <<>>
    ELSE (CHOOSE b \in blocks : b[1] = k)[2] \o Concat(blocks, k + 1)

\* list.sort() of the members of a Python set of str, in the order StrLess:
\* the empty name first, then the names by the code of their first character,
\* those with the same first character in the order of their tails
RECURSIVE SortNames(_)
SortNames(S) ==
    LET full == S \ {<<>>}
        heads == {Head(n) : n \in full}
        block(c) ==
            {<<Cardinality({d \in heads : Code(d) < Code(c)}),
               [i \in 1..Len(ts) |-> <<c>> \o ts[i]]>> :
                 ts \in {SortNames(B) :
                           B \in {{Tail(n) : n \in {m \in full : Head(m) = c}}}}}
    IN (IF <<>> \in S THEN << <<>> >> ELSE <<>>)
       \o (CHOOSE s \in {Concat(bs, 0) : bs \in {UNION {block(c) : c \in heads}}} : TRUE)

\* s[:n] / s.slice(0, n)
Take(s, n) == SubSeq(s, 1, IF Len(s) < n THEN Len(s) ELSE n)

Range(s) == {s[i] : i \in 1..Len(s)}

----------------------------------------------------------------------------
(* The preference file and the values it holds *)

\* indexes into LAYOUT_SUFFIXES / LAYOUT_PREFIXES (the two lists agree)
LAYOUT_SUFFIXES == <<1, 2, 3>>

\* a key of the store that is no layout key (the application's other settings)
OtherKey == <<0, <<"o">>>>

KeysOf(base) == {<<i, base>> : i \in Range(LAYOUT_SUFFIXES)}

\* the layout keys the application saves and removes
LayoutKeys ==
    {<<1, NameLowerJ>>, <<3, NameLowerJ>>, <<2, NameJ>>, <<1, NameJa>>,
     <<1, NameOutlineJ>>}

\* plist values; an item is a line of PlistBuddy's output as a list of words
ColsA == [type |-> "array", items |-> << <<"Name">>, <<"Date">> >>]
ColsB == [type |-> "array", items |-> << <<"Date">> >>]
WidthsA == [type |-> "dict", items |-> << <<"Name", "=", "120">> >>]
EmptyString == [type |-> "string", items |-> <<>>]

\* the values the application stores under each kind of key
ValuesFor(k) ==
    CASE k = <<1, NameLowerJ>> -> {ColsA, EmptyString}
      [] k[1] = 1 -> {ColsB}
      [] k[1] = 2 -> {ColsA}
      [] k[1] = 3 -> {WidthsA}

EmptyData == [k \in {} |-> ColsA]

SetKey(d, k, v) == [x \in DOMAIN d \cup {k} |-> IF x = k THEN v ELSE d[x]]

RemoveKey(d, k) == [x \in DOMAIN d \ {k} |-> d[x]]

\* the file: all of its bytes ("whole"), none (truncated), or a prefix of them
WholeFile(d) == [bytes |-> "whole", data |-> d]
TruncatedFile == [bytes |-> "none", data |-> EmptyData]
PartialFile == [bytes |-> "part", data |-> EmptyData]

----------------------------------------------------------------------------
(* PlistBuddy *)

Line(pad, words) == [pad |-> pad, words |-> words]

\* what "PlistBuddy -c Print" writes for a value, line by line
PlistBuddyPrint(v) ==
    CASE v.type = "array" ->
           <<Line(0, <<"Array", "{">>)>>
           \o [i \in 1..Len(v.items) |-> Line(4, v.items[i])]
           \o <<Line(0, <<"}">>), Line(0, <<>>)>>
      [] v.type = "dict" ->
           <<Line(0, <<"Dict", "{">>)>>
           \o [i \in 1..Len(v.items) |-> Line(4, v.items[i])]
           \o <<Line(0, <<"}">>), Line(0, <<>>)>>
      [] OTHER -> <<Line(0, v.items), Line(0, <<>>)>>

\* String.prototype.trim on a whole output: blank lines at both ends go
RECURSIVE TrimOutput(_)
TrimOutput(ls) ==
    IF ls = <<>> THEN ls
    ELSE IF Head(ls).words = <<>> THEN TrimOutput(Tail(ls))
    ELSE IF ls[Len(ls)].words = <<>> THEN TrimOutput(SubSeq(ls, 1, Len(ls) - 1))
    ELSE <<Line(0, Head(ls).words)>> \o Tail(ls)

\* null, or the trimmed stdout
NullRaw == [isNull |-> TRUE, lines |-> <<>>]
Raw(ls) == [isNull |-> FALSE, lines |-> ls]

\* !raw in JavaScript: null and "" are falsy
Falsy(raw) == raw.isNull \/ raw.lines = <<>>

\* plistRead(PLIST_PATH, "Print ':key'"); up: the command runs and is not
\* timed out.  A missing key and a file that is no plist make it exit non-zero.
plistRead(f, k, up) ==
    IF up /\ f.bytes = "whole" /\ k \in DOMAIN f.data
    THEN Raw(TrimOutput(PlistBuddyPrint(f.data[k])))
    ELSE NullRaw

\* the lines of a raw output, each trimmed, without blanks and brackets
BodyLines(raw, opener) ==
    LET trimmed == [i \in 1..Len(raw.lines) |-> raw.lines[i].words]
    IN SelectSeq(trimmed, LAMBDA l : l # <<>> /\ l # opener /\ l # <<"}">>)

parsePlistBuddyArray(raw) == BodyLines(raw, <<"Array", "{">>)

\* parseFloat on the number words the store holds
parseFloat(w) ==
    CASE w = "120" -> 120
      [] w = "80" -> 80
      [] OTHER -> -1

\* /^(\S+)\s*=\s*(.+)$/ : a word, "=", the rest
parsePlistBuddyDict(raw) ==
    LET ls == SelectSeq(BodyLines(raw, <<"Dict", "{">>),
                        LAMBDA l : Len(l) >= 3 /\ l[2] = "=")
        ks == {ls[i][1] : i \in 1..Len(ls)}
        lastOf(k) == CHOOSE i \in 1..Len(ls) :
                        /\ ls[i][1] = k
                        /\ \A j \in (i + 1)..Len(ls) : ls[j][1] # k
    IN [k \in ks |-> parseFloat(ls[lastOf(k)][3])]

----------------------------------------------------------------------------
(* The Python scripts *)

\* getPlistKeysByPrefix(PLIST_PATH, LAYOUT_PREFIXES, limit); up: python3 runs
\* and is not timed out (plistlib.load raises on a file that is no plist)
getPlistKeysByPrefix(f, limit, up) ==
    IF ~up \/ f.bytes # "whole" THEN <<>>
    ELSE LET names == {k[2] : k \in {x \in DOMAIN f.data :
                                        x[1] \in Range(LAYOUT_SUFFIXES)}}
             kept == {n \in names : ~startswith(n, Outline)}
         IN SelectSeq(Take(SortNames(kept), limit), LAMBDA n : n # <<>>)

\* where the copy script can be stopped (killed, or by execSync's timeout):
\* not at all, before it opens the file for writing, after open(..., 'wb')
\* has truncated the file, inside plistlib.dump, or after the file is written
Cuts == {"none", "start", "truncated", "partial", "written"}

\* the suffixes whose source key is in data, in the order of the loop
CopiedSuffixes(d, source) ==
    SelectSeq(LAYOUT_SUFFIXES, LAMBDA i : <<i, source>> \in DOMAIN d)

\* data after the loop: data[tgt_key] = copy.deepcopy(data[src_key])
CopiedData(d, source, target) ==
    LET written == {<<i, target>> : i \in Range(CopiedSuffixes(d, source))}
    IN [k \in DOMAIN d \cup written |->
           IF k \in written THEN d[<<k[1], source>>] ELSE d[k]]

\* copyPlistKeys(PLIST_PATH, LAYOUT_SUFFIXES, source, target): the file it
\* leaves, and what it returns
copyPlistKeys(f, source, target, cut) ==
    LET failed(file) == [file |-> file, ok |-> FALSE, keysCopied |-> <<>>]
    IN IF f.bytes # "whole" THEN failed(f)
       ELSE LET copied == CopiedSuffixes(f.data, source)
                new == WholeFile(CopiedData(f.data, source, target))
            IN IF copied = <<>> \/ cut = "start" THEN failed(f)
               ELSE IF cut = "truncated" THEN failed(TruncatedFile)
               ELSE IF cut = "partial" THEN failed(PartialFile)
               ELSE IF cut = "written" THEN failed(new)
               ELSE [file |-> new, ok |-> TRUE,
                     keysCopied |-> [i \in 1..Len(copied) |-> <<copied[i], target>>]]

----------------------------------------------------------------------------
(* column-layout.ts *)

NullValue == [isNull |-> TRUE, v |-> <<>>]
Value(v) == [isNull |-> FALSE, v |-> v]

NotFound == [found |-> FALSE]

\* what readLayoutForName makes of the three outputs it has read
layoutFromRaws(baseName, rawColumns, rawTableViewColumns, rawWidths) ==
    LET raws == <<rawColumns, rawTableViewColumns, rawWidths>>
    IN IF Falsy(rawColumns) /\ Falsy(rawTableViewColumns) /\ Falsy(rawWidths)
       THEN NotFound
       ELSE [found |-> TRUE,
             name |-> baseName,
             resolvedKey |-> baseName,
             columns |-> IF Falsy(rawColumns) THEN NullValue
                         ELSE Value(parsePlistBuddyArray(rawColumns)),
             tableViewColumns |-> IF Falsy(rawTableViewColumns) THEN NullValue
                                  ELSE Value(parsePlistBuddyArray(rawTableViewColumns)),
             widths |-> IF Falsy(rawWidths) THEN NullValue
                        ELSE Value(parsePlistBuddyDict(rawWidths)),
             keysFound |-> LET ks == SelectSeq(<<1, 2, 3>>, LAMBDA i : ~Falsy(raws[i]))
                           IN [i \in 1..Len(ks) |-> <<ks[i], baseName>>]]

\* readLayoutForName(baseName) with the file the same at its three reads;
\* up: the PlistBuddy commands of this call work
readLayoutForName(f, baseName, up) ==
    layoutFromRaws(baseName,
                   plistRead(f, <<1, baseName>>, up),
                   plistRead(f, <<2, baseName>>, up),
                   plistRead(f, <<3, baseName>>, up))

getExistingNames(f, limit, up) == getPlistKeysByPrefix(f, limit, up)

\* the limit findMatchingNames passes to getExistingNames
FuzzyLimit == 200

findMatchingNames(f, searchTerm, up) ==
    LET allNames == getExistingNames(f, FuzzyLimit, up)
        lower == toLowerCase(searchTerm)
    IN SelectSeq(allNames, LAMBDA n : includes(toLowerCase(n), lower))

\* the stages of a call at which its external commands can fail
Stages == {"exact", "uuid", "names", "fuzzy", "verify"}

\* !x for a string argument: undefined and "" are falsy
Missing(arg) == arg = None \/ arg = <<>>

\* an argument that is no string (a number other than 0)
NotAString == <<"?number">>

\* typeof arg === "string"
IsString(arg) == arg \notin {None, NotAString}

\* which lookups a call made and what each returned (not part of the result)
NoLookups == [s \in {"exact", "uuid", "fuzzy", "verify"} |-> "skipped"]
Outcome(r) == IF r.found THEN "found" ELSE "notfound"

Resolved(via, key, layout, fuzzy, lookups) ==
    [via |-> via, key |-> key, layout |-> layout, fuzzy |-> fuzzy,
     lookups |-> lookups]

\* resolveName trying the uuid before the exact name
resolveNameUuidFirst(f, name, uuid, down) ==
    LET exactResult == readLayoutForName(f, name, "exact" \notin down)
        uuidResult == readLayoutForName(f, uuid, "uuid" \notin down)
        l1 == [NoLookups EXCEPT !["uuid"] = Outcome(uuidResult)]
        l2 == [NoLookups EXCEPT !["exact"] = Outcome(exactResult)]
    IN IF ~Missing(uuid) /\ uuidResult.found
       THEN Resolved("uuid", uuid, [uuidResult EXCEPT !.name = name], <<>>, l1)
       ELSE IF exactResult.found
       THEN Resolved("exact", name, exactResult, <<>>, l2)
       ELSE Resolved("none", None, NotFound, <<>>, l2)

\* getColumnLayout's lookups: exact name, uuid, partial match;
\* down: the stages whose commands fail
resolveName(f, name, uuid, down) ==
    LET exactResult == readLayoutForName(f, name, "exact" \notin down)
        uuidResult == readLayoutForName(f, uuid, "uuid" \notin down)
        fuzzyMatches == findMatchingNames(f, name, "names" \notin down)
        fuzzyResult == readLayoutForName(f, fuzzyMatches[1], "fuzzy" \notin down)
        l1 == [NoLookups EXCEPT !["exact"] = Outcome(exactResult)]
        l2 == IF Missing(uuid) THEN l1
              ELSE [l1 EXCEPT !["uuid"] = Outcome(uuidResult)]
        l3 == IF Len(fuzzyMatches) # 1 THEN l2
              ELSE [l2 EXCEPT !["fuzzy"] = Outcome(fuzzyResult)]
    IN IF exactResult.found
       THEN Resolved("exact", name, exactResult, <<>>, l1)
       ELSE IF ~Missing(uuid) /\ uuidResult.found
       THEN Resolved("uuid", uuid, [uuidResult EXCEPT !.name = name], <<>>, l2)
       ELSE IF Len(fuzzyMatches) = 1 /\ fuzzyResult.found
       THEN Resolved("fuzzy", fuzzyMatches[1], fuzzyResult, fuzzyMatches, l3)
       ELSE Resolved("none", None, NotFound, fuzzyMatches, l3)

GetResult(success, error, name, r, partialMatches, exampleNames) ==
    [success |-> success, error |-> error, name |-> name, layout |-> r.layout,
     nameSearched |-> IF r.via = "fuzzy" THEN name ELSE None,
     note |-> IF r.via = "fuzzy" THEN r.key ELSE None,
     partialMatches |-> partialMatches, exampleNames |-> exampleNames,
     lookups |-> r.lookups]

Unresolved == Resolved("none", None, NotFound, <<>>, NoLookups)

\* getColumnLayout({name, uuid})
getColumnLayout(f, name, uuid, down) ==
    LET r == resolveName(f, name, uuid, down)
        examples == getExistingNames(f, 15, "names" \notin down)
    IN IF Missing(name)
       THEN GetResult(FALSE, "param", name, Unresolved, <<>>, <<>>)
       ELSE IF r.via # "none"
       THEN GetResult(TRUE, "none", name, r, <<>>, <<>>)
       ELSE IF Len(r.fuzzy) > 1
       THEN GetResult(FALSE, "ambiguous", name, r, r.fuzzy, <<>>)
       ELSE GetResult(FALSE, "notfound", name, r, <<>>, examples)

\* resolveSource taking the first partial match when there are several
resolveSourceGuess(f, sourceName, sourceUuid, down) ==
    LET exactResult == readLayoutForName(f, sourceName, "exact" \notin down)
        fuzzy == findMatchingNames(f, sourceName, "names" \notin down)
        fuzzyResult == readLayoutForName(f, fuzzy[1], "fuzzy" \notin down)
        l1 == [NoLookups EXCEPT !["exact"] = Outcome(exactResult)]
    IN IF exactResult.found
       THEN Resolved("exact", sourceName, exactResult, <<>>, l1)
       ELSE IF Len(fuzzy) >= 1 /\ fuzzyResult.found
       THEN Resolved("fuzzy", fuzzy[1], fuzzyResult, fuzzy,
                     [l1 EXCEPT !["fuzzy"] = "found"])
       ELSE Resolved("none", None, NotFound, fuzzy, l1)

\* copyColumnLayout's lookups of its source
resolveSource(f, sourceName, sourceUuid, down) ==
    LET exactResult == readLayoutForName(f, sourceName, "exact" \notin down)
        uuidResult == readLayoutForName(f, sourceUuid, "uuid" \notin down)
        fuzzy == findMatchingNames(f, sourceName, "names" \notin down)
        fuzzyResult == readLayoutForName(f, fuzzy[1], "fuzzy" \notin down)
        l1 == [NoLookups EXCEPT !["exact"] = Outcome(exactResult)]
        l2 == IF Missing(sourceUuid) THEN l1
              ELSE [l1 EXCEPT !["uuid"] = Outcome(uuidResult)]
        l3 == IF Len(fuzzy) # 1 THEN l2
              ELSE [l2 EXCEPT !["fuzzy"] = Outcome(fuzzyResult)]
    IN IF exactResult.found
       THEN Resolved("exact", sourceName, exactResult, <<>>, l1)
       ELSE IF ~Missing(sourceUuid) /\ uuidResult.found
       THEN Resolved("uuid", sourceUuid, uuidResult, <<>>, l2)
       ELSE IF Len(fuzzy) = 1 /\ fuzzyResult.found
       THEN Resolved("fuzzy", fuzzy[1], fuzzyResult, fuzzy, l3)
       ELSE Resolved("none", None, NotFound, fuzzy, l3)

\* verifyTarget taking the write for granted
verifyTargetAssumed(f, resolvedTargetKey, up) ==
    [found |-> TRUE, columns |-> NullValue]

\* the re-read of the target after the write
verifyTarget(f, resolvedTargetKey, up) == readLayoutForName(f, resolvedTargetKey, up)

\* a target key that ignores the uuid
resolveTargetNameOnly(targetName, targetUuid) == targetName

\* const resolvedTargetKey = targetUuid ?? targetName
resolveTarget(targetName, targetUuid) ==
    IF targetUuid # None THEN targetUuid ELSE targetName

CopyResult(success, error, sourceName, targetName, source, target, keysCopied, listed, columns, lookups) ==
    [success |-> success, error |-> error,
     sourceName |-> sourceName, targetName |-> targetName,
     resolvedSourceKey |-> source, resolvedTargetKey |-> target,
     keysCopied |-> keysCopied, listed |-> listed, columns |-> columns,
     lookups |-> lookups]

\* copyColumnLayout once resolveSource has given r: the checks of the
\* parameters and of r, the copy and the verification
copyResolved(f, sourceName, targetName, targetUuid, down, cut, r) ==
    LET resolvedSourceKey == r.key
        resolvedTargetKey == resolveTarget(targetName, targetUuid)
        copyResult == copyPlistKeys(f, resolvedSourceKey, resolvedTargetKey, cut)
        verification == verifyTarget(copyResult.file, resolvedTargetKey,
                                     "verify" \notin down)
        l4 == [r.lookups EXCEPT !["verify"] = Outcome(verification)]
        early(error, listed, lookups) ==
            [res |-> CopyResult(FALSE, error, sourceName, targetName, None, None,
                                <<>>, listed, NullValue, lookups),
             file |-> f]
        late(success, error, keysCopied, columns, lookups) ==
            [res |-> CopyResult(success, error, sourceName, targetName,
                                resolvedSourceKey, resolvedTargetKey,
                                keysCopied, <<>>, columns, lookups),
             file |-> copyResult.file]
    IN IF Missing(sourceName) \/ Missing(targetName)
       THEN early("param", <<>>, NoLookups)
       ELSE IF r.via = "none" /\ Len(r.fuzzy) > 1
       THEN early("ambiguous", Take(r.fuzzy, 8), r.lookups)
       ELSE IF r.via = "none"
       THEN early("notfound", <<>>, r.lookups)
       ELSE IF ~IsString(resolvedTargetKey)
       THEN [res |-> CopyResult(FALSE, "TypeError", sourceName, targetName,
                                resolvedSourceKey, resolvedTargetKey,
                                <<>>, <<>>, NullValue, r.lookups),
             file |-> f]
       ELSE IF ~copyResult.ok
       THEN late(FALSE, "copyfailed", <<>>, NullValue, r.lookups)
       ELSE IF ~verification.found
       THEN late(FALSE, "unverified", <<>>, NullValue, l4)
       ELSE late(TRUE, "none", copyResult.keysCopied, verification.columns, l4)

\* copyColumnLayout({sourceName, targetName, sourceUuid, targetUuid}); down:
\* the stages whose commands fail; cut: where the copy script is stopped.
\* The result, and the file the call leaves.  With the error "TypeError"
\* there is no result: copyPlistKeys calls targetBaseName.replace before its
\* try block, and the exception leaves copyColumnLayout.
copyColumnLayout(f, sourceName, targetName, sourceUuid, targetUuid, down, cut) ==
    copyResolved(f, sourceName, targetName, targetUuid, down, cut,
                 resolveSource(f, sourceName, sourceUuid, down))

----------------------------------------------------------------------------
(* One server process: a tool call runs to its end before the next starts  *)
(* (every external command is an execSync); last holds the call and its    *)
(* result until the reply is sent.  Between calls the application that     *)
(* owns the preference file rewrites keys of it.                           *)

\* the commands of a call that fail: none, or those of one stage
Downs == {{}} \cup {{s} : s \in Stages}

\* what the outside does to one call
Envs == {e \in [down : Downs, cut : Cuts] : e.down = {} \/ e.cut = "none"}
GetEnvs == {e \in Envs : e.cut = "none" /\ e.down # {"verify"}}
Quiet == [down |-> {}, cut |-> "none"]

NameArgs == {NameJ, NameLowerJ, <<>>}
UuidArgs == {None, NameLowerJ}
TargetArgs == {NameJ, <<>>}

NoCall == [op |-> "none"]

NoProcs == [p \in {} |-> NoCall]

\* no SmartGroups.plist, SmartRules.plist or .eml file is looked at
NoFile == [exists |-> FALSE]

\* the names of the layouts a large store holds from the start: "A000",
\* "A001", ...
Filler(i) ==
    <<"A", Digits[(i \div 100) + 1], Digits[((i \div 10) % 10) + 1],
      Digits[(i % 10) + 1]>>

FillerNames == {Filler(i) : i \in 0..(FuzzyLimit - 2)}

\* the store has few layout keys beside those it held from the start
Small(f) ==
    Cardinality({k \in DOMAIN f.data :
                    k[1] \in Range(LAYOUT_SUFFIXES) /\ k[2] \notin FillerNames})
      <= MaxKeys

\* no layout saved yet; the application's other settings are there
Init ==
    /\ plist = WholeFile(SetKey(EmptyData, OtherKey, ColsB))
    /\ last = NoCall
    /\ procs = NoProcs
    /\ input = NoFile

\* the application saves a layout key
AppSetKey(k, v) ==
    /\ last = NoCall
    /\ plist.bytes = "whole"
    /\ k \in DOMAIN plist.data => plist.data[k] # v
    /\ Small(WholeFile(SetKey(plist.data, k, v)))
    /\ plist' = WholeFile(SetKey(plist.data, k, v))
    /\ UNCHANGED <<last, procs, input>>

\* the application removes a layout key
AppRemoveKey(k) ==
    /\ last = NoCall
    /\ plist.bytes = "whole"
    /\ k \in DOMAIN plist.data
    /\ plist' = WholeFile(RemoveKey(plist.data, k))
    /\ UNCHANGED <<last, procs, input>>

\* a get_column_layout call
GetColumnLayout(name, uuid, env) ==
    /\ last = NoCall
    /\ Small(plist)
    /\ last' = [op |-> "get", name |-> name, uuid |-> uuid, env |-> env,
                pre |-> plist,
                res |-> getColumnLayout(plist, name, uuid, env.down)]
    /\ UNCHANGED <<plist, procs, input>>

\* a copy_column_layout call
CopyColumnLayout(sourceName, targetName, sourceUuid, targetUuid, env) ==
    LET r == copyColumnLayout(plist, sourceName, targetName, sourceUuid,
                              targetUuid, env.down, env.cut)
    IN /\ last = NoCall
       /\ Small(plist)
       /\ last' = [op |-> "copy", sourceName |-> sourceName,
                   targetName |-> targetName, sourceUuid |-> sourceUuid,
                   targetUuid |-> targetUuid, env |-> env, pre |-> plist,
                   res |-> r.res]
       /\ plist' = r.file
       /\ UNCHANGED <<procs, input>>

\* the result goes back to the client; the server waits for the next call
Reply ==
    /\ last # NoCall
    /\ last' = NoCall
    /\ UNCHANGED <<plist, procs, input>>

AppWrites ==
    \/ \E k \in LayoutKeys : \E v \in ValuesFor(k) : AppSetKey(k, v)
    \/ \E k \in LayoutKeys : AppRemoveKey(k)

\* the calls clients make; a call that lacks a required parameter returns
\* before its first command, whatever its other arguments
GetCalls ==
    {c \in [name : NameArgs, uuid : UuidArgs, env : GetEnvs] :
        Missing(c.name) => (c.uuid = None /\ c.env = Quiet)}
CopyCalls ==
    {c \in [sourceName : NameArgs, targetName : TargetArgs,
            sourceUuid : UuidArgs, targetUuid : UuidArgs \cup {NotAString},
            env : Envs] :
        /\ (Missing(c.sourceName) \/ Missing(c.targetName)) =>
              (c.sourceUuid = None /\ c.targetUuid = None /\ c.env = Quiet)
        /\ c.targetUuid = NotAString => (c.sourceUuid = None /\ c.env = Quiet)}

Calls ==
    \/ \E c \in GetCalls : GetColumnLayout(c.name, c.uuid, c.env)
    \/ \E c \in CopyCalls :
          CopyColumnLayout(c.sourceName, c.targetName, c.sourceUuid,
                           c.targetUuid, c.env)

Next == AppWrites \/ Calls \/ Reply

Spec == Init /\ [][Next]_vars

----------------------------------------------------------------------------
(* A large store: one fewer saved layouts than findMatchingNames asks for, *)
(* under names that sort before those of the entities above, so that the   *)
(* application's next layouts take the store to the limit and past it.     *)

ManyData ==
    [k \in {OtherKey} \cup {<<1, n>> : n \in FillerNames} |-> ColsB]

\* the keys the application writes, and the names clients ask for
ManyKeys == {<<1, NameLowerJ>>, <<1, NameJa>>}
ManyArgs == {NameJ, NameA}

InitMany ==
    /\ plist = WholeFile(ManyData)
    /\ last = NoCall
    /\ procs = NoProcs
    /\ input = NoFile

NextMany ==
    \/ \E k \in ManyKeys : \E v \in {ColsA, ColsB, EmptyString} : AppSetKey(k, v)
    \/ \E k \in ManyKeys : AppRemoveKey(k)
    \/ \E name \in ManyArgs : GetColumnLayout(name, None, Quiet)
    \/ \E sourceName \in ManyArgs :
          CopyColumnLayout(sourceName, NameJ, None, None, Quiet)
    \/ Reply

SpecMany == InitMany /\ [][NextMany]_vars

----------------------------------------------------------------------------
(* Two server processes on the same preference file (two clients, each     *)
(* with its own server).  A call is a sequence of external commands; each  *)
(* command is one step, and the steps of the two calls interleave.  The    *)
(* copy script's steps are its load, its open(..., 'wb') and its dump.     *)

Procs == {1, 2}

Idle == [op |-> "idle"]

\* the store at the start: a full layout under "j", older ones under "J"
\* and "Ja"
ConcData ==
    [k \in {OtherKey, <<1, NameJ>>, <<1, NameJa>>} \cup KeysOf(NameLowerJ) |->
        IF k \in {OtherKey, <<1, NameJ>>, <<1, NameJa>>} THEN ColsB
        ELSE IF k[1] = 3 THEN WidthsA ELSE ColsA]

\* the calls the clients make: <<name, uuid>> and <<sourceName, targetName>>
ConcGets == {<<NameJ, None>>, <<NameA, NameLowerJ>>, <<NameOutlineJ, None>>}
ConcCopies == {<<NameLowerJ, NameJ>>, <<NameA, NameJa>>}

\* a call at its first command, the lookup of the exact name; seen: the
\* contents the file has had since a get_column_layout began; torn: one of
\* its reads found the file truncated
NewCall(op, name, uuid, target, f) ==
    [op |-> op, pc |-> "exact", name |-> name, uuid |-> uuid, target |-> target,
     base |-> name, raws |-> <<>>, lookups |-> NoLookups, fuzzy |-> <<>>,
     via |-> "none", key |-> None, layout |-> NotFound, data |-> EmptyData,
     seen |-> IF op = "get" THEN {f} ELSE {}, torn |-> FALSE, res |-> NoCall]

Lookup(c, pc, base) == [c EXCEPT !.pc = pc, !.base = base, !.raws = <<>>]

Done(c, res) == [c EXCEPT !.pc = "done", !.res = res]

ResolvedOf(c) == Resolved(c.via, c.key, c.layout, c.fuzzy, c.lookups)

GetDone(c, success, error, partialMatches, exampleNames) ==
    Done(c, GetResult(success, error, c.name, ResolvedOf(c),
                      partialMatches, exampleNames))

CopyDone(c, success, error, keysCopied, listed, columns) ==
    Done(c, CopyResult(success, error, c.name, c.target, c.key,
                       IF c.key = None THEN None ELSE c.target,
                       keysCopied, listed, columns, c.lookups))

\* the call after the three reads of a lookup gave layout r
AfterLookup(c, r) ==
    LET d == [c EXCEPT !.lookups[c.pc] = Outcome(r)]
        found == [d EXCEPT !.via = c.pc, !.key = c.base,
                           !.layout = IF c.pc = "uuid" /\ c.op = "get"
                                      THEN [r EXCEPT !.name = c.name] ELSE r]
    IN IF c.pc = "verify"
       THEN (IF r.found
             THEN CopyDone(d, TRUE, "none",
                           [i \in 1..Len(CopiedSuffixes(c.data, c.key)) |->
                               <<CopiedSuffixes(c.data, c.key)[i], c.target>>],
                           <<>>, r.columns)
             ELSE CopyDone(d, FALSE, "unverified", <<>>, <<>>, NullValue))
       ELSE IF r.found
       THEN (IF c.op = "get" THEN GetDone(found, TRUE, "none", <<>>, <<>>)
             ELSE [found EXCEPT !.pc = "load"])
       ELSE IF c.pc = "exact" /\ ~Missing(c.uuid) THEN Lookup(d, "uuid", c.uuid)
       ELSE IF c.pc \in {"exact", "uuid"} THEN [d EXCEPT !.pc = "names"]
       ELSE [d EXCEPT !.pc = "examples"]

StartGet(p, name, uuid) ==
    /\ procs[p].op = "idle"
    /\ procs' = [procs EXCEPT ![p] = NewCall("get", name, uuid, None, plist)]
    /\ UNCHANGED <<plist, last, input>>

StartCopy(p, sourceName, targetName) ==
    /\ procs[p].op = "idle"
    /\ procs' = [procs EXCEPT ![p] = NewCall("copy", sourceName, None, targetName, plist)]
    /\ UNCHANGED <<plist, last, input>>

\* one plistRead of readLayoutForName; the third ends the lookup
ReadKey(p) ==
    LET c == procs[p]
        raws == Append(c.raws, plistRead(plist, <<Len(c.raws) + 1, c.base>>, TRUE))
        d == [c EXCEPT !.torn = @ \/ (c.op = "get" /\ plist.bytes # "whole")]
    IN /\ c.op # "idle"
       /\ c.pc \in {"exact", "uuid", "fuzzy", "verify"}
       /\ procs' = [procs EXCEPT ![p] =
                       IF Len(raws) < 3 THEN [d EXCEPT !.raws = raws]
                       ELSE AfterLookup(d, layoutFromRaws(c.base, raws[1], raws[2], raws[3]))]
       /\ UNCHANGED <<plist, last, input>>

\* findMatchingNames
ListNames(p) ==
    LET c == procs[p]
        fuzzy == findMatchingNames(plist, c.name, TRUE)
        d == [c EXCEPT !.fuzzy = fuzzy]
    IN /\ c.op # "idle"
       /\ c.pc = "names"
       /\ procs' = [procs EXCEPT ![p] =
                       IF Len(fuzzy) = 1 THEN Lookup(d, "fuzzy", fuzzy[1])
                       ELSE IF Len(fuzzy) > 1 /\ c.op = "copy"
                       THEN CopyDone(d, FALSE, "ambiguous", <<>>, Take(fuzzy, 8), NullValue)
                       ELSE [d EXCEPT !.pc = "examples"]]
       /\ UNCHANGED <<plist, last, input>>

\* getExistingNames(15) of get_column_layout, getExistingNames(10) of
\* copy_column_layout
ListExamples(p) ==
    LET c == procs[p]
        examples == getExistingNames(plist, IF c.op = "get" THEN 15 ELSE 10, TRUE)
    IN /\ c.op # "idle"
       /\ c.pc = "examples"
       /\ procs' = [procs EXCEPT ![p] =
                       IF c.op = "copy"
                       THEN CopyDone(c, FALSE, "notfound", <<>>, <<>>, NullValue)
                       ELSE IF Len(c.fuzzy) > 1
                       THEN GetDone(c, FALSE, "ambiguous", c.fuzzy, <<>>)
                       ELSE GetDone(c, FALSE, "notfound", <<>>, examples)]
       /\ UNCHANGED <<plist, last, input>>

\* the copy script: plistlib.load and the loop over the suffixes
Load(p) ==
    LET c == procs[p]
    IN /\ c.op = "copy"
       /\ c.pc = "load"
       /\ procs' = [procs EXCEPT ![p] =
                       IF plist.bytes # "whole" \/ CopiedSuffixes(plist.data, c.key) = <<>>
                       THEN CopyDone(c, FALSE, "copyfailed", <<>>, <<>>, NullValue)
                       ELSE [c EXCEPT !.pc = "open", !.data = plist.data]]
       /\ UNCHANGED <<plist, last, input>>

\* the copy script: open(plist_path, 'wb')
Open(p) ==
    /\ procs[p].op = "copy"
    /\ procs[p].pc = "open"
    /\ plist' = TruncatedFile
    /\ procs' = [procs EXCEPT ![p].pc = "dump"]
    /\ UNCHANGED <<last, input>>

\* the copy script: plistlib.dump of what it loaded and copied
Dump(p) ==
    LET c == procs[p]
        new == WholeFile(CopiedData(c.data, c.key, c.target))
    IN /\ c.op = "copy"
       /\ c.pc = "dump"
       /\ plist' = new
       /\ procs' = [q \in Procs |->
                       IF q = p THEN Lookup(c, "verify", c.target)
                       ELSE IF procs[q].op = "get"
                       THEN [procs[q] EXCEPT !.seen = @ \cup {new}]
                       ELSE procs[q]]
       /\ UNCHANGED <<last, input>>

\* the result goes back to the client
ReplyConc(p) ==
    /\ procs[p].op # "idle"
    /\ procs[p].pc = "done"
    /\ procs' = [procs EXCEPT ![p] = Idle]
    /\ UNCHANGED <<plist, last, input>>

InitConc ==
    /\ plist = WholeFile(ConcData)
    /\ last = NoCall
    /\ procs = [p \in Procs |-> Idle]
    /\ input = NoFile

NextConc ==
    \E p \in Procs :
        \/ \E g \in ConcGets : StartGet(p, g[1], g[2])
        \/ \E c \in ConcCopies : StartCopy(p, c[1], c[2])
        \/ ReadKey(p)
        \/ ListNames(p)
        \/ ListExamples(p)
        \/ Load(p)
        \/ Open(p)
        \/ Dump(p)
        \/ ReplyConc(p)

SpecConc == InitConc /\ [][NextConc]_vars

----------------------------------------------------------------------------
(* Properties of the calls of one server process *)

IsGet == last.op = "get"
IsCopy == last.op = "copy"

\* the key a copy writes under
TargetOf(c) == IF c.targetUuid # None THEN c.targetUuid ELSE c.targetName

\* some layout key of base holds a value PlistBuddy prints as non-empty text
Readable(f, base) ==
    /\ f.bytes = "whole"
    /\ \E k \in KeysOf(base) \cap DOMAIN f.data : f.data[k] # EmptyString

\* the three values a get_column_layout result reports
Triple(res) == <<res.layout.columns, res.layout.tableViewColumns, res.layout.widths>>

\* C1: after a successful copy_column_layout(sourceName=A, targetName=B),
\* get_column_layout(name=B) returns the columns, tableViewColumns and widths
\* that get_column_layout(name=A) returned before the copy (calls in which no
\* command fails and no uuid is passed).
C1_RoundTrip ==
    (IsCopy /\ last.res.success /\ last.env = Quiet
        /\ last.sourceUuid = None /\ last.targetUuid = None) =>
      LET a == getColumnLayout(last.pre, last.sourceName, None, {})
          b == getColumnLayout(plist, last.targetName, None, {})
      IN a.success /\ b.success /\ Triple(b) = Triple(a)

\* C3: whatever interrupts a copy_column_layout, the preference file holds
\* its complete content from before the call or the complete new content,
\* never an empty or partly written file.
C3_AtomicReplace ==
    (IsCopy /\ last.pre.bytes = "whole") =>
      \/ plist = last.pre
      \/ /\ plist.bytes = "whole"
         /\ last.res.resolvedSourceKey # None
         /\ plist.data = CopiedData(last.pre.data, last.res.resolvedSourceKey,
                                    TargetOf(last))

\* C4 as stated: a copy_column_layout whose sourceName has none of the three
\* layout keys, with no source uuid, fails and leaves the store unchanged
\* (calls in which no command fails or is stopped).
C4_NoSourceKeysFails ==
    (IsCopy /\ last.sourceUuid = None /\ last.env = Quiet
        /\ KeysOf(last.sourceName) \cap DOMAIN last.pre.data = {}) =>
      ~last.res.success /\ plist = last.pre

\* partial matching singles out one stored name that has a readable layout
SingledOut(f, name) ==
    LET c == findMatchingNames(f, name, TRUE)
    IN Len(c) = 1 /\ Readable(f, c[1])

\* C4 amended: a copy_column_layout whose sourceName has none of the three
\* layout keys, with no source uuid, and for which partial matching does not
\* single out one stored name with a readable layout, fails and leaves the
\* store unchanged.
C4_NoSourceFails ==
    (IsCopy /\ last.sourceUuid = None
        /\ KeysOf(last.sourceName) \cap DOMAIN last.pre.data = {}
        /\ ~SingledOut(last.pre, last.sourceName)) =>
      ~last.res.success /\ plist = last.pre

C4_Witness ==
    /\ IsCopy /\ last.sourceUuid = None /\ last.env = Quiet
    /\ ~Missing(last.sourceName) /\ ~Missing(last.targetName)
    /\ KeysOf(last.sourceName) \cap DOMAIN last.pre.data = {}
    /\ Len(findMatchingNames(last.pre, last.sourceName, TRUE)) = 2
    /\ last.res.error = "ambiguous"
    /\ plist = last.pre

\* C5: a copy_column_layout to target key T leaves every key of the store
\* other than the three layout keys of T as it was; a get_column_layout
\* changes no key.
C5_Frame ==
    /\ IsGet => plist = last.pre
    /\ IsCopy =>
         \A k \in (DOMAIN last.pre.data \cup DOMAIN plist.data) \ KeysOf(TargetOf(last)) :
            /\ k \in DOMAIN last.pre.data
            /\ k \in DOMAIN plist.data
            /\ plist.data[k] = last.pre.data[k]

\* C6: copy_column_layout returns success=true only if the re-read of the
\* target after the write finds one of its three layout keys; when the copy
\* command succeeded and the re-read finds none, it returns success=false
\* (reported as the unverified copy).
C6_VerifiedSuccess ==
    IsCopy =>
      LET reread == "verify" \notin last.env.down /\ Readable(plist, TargetOf(last))
          wrote == /\ last.res.resolvedSourceKey # None
                   /\ IsString(TargetOf(last))
                   /\ last.env.cut = "none"
                   /\ last.pre.bytes = "whole"
      IN /\ last.res.success => reread
         /\ (wrote /\ ~reread) => (~last.res.success /\ last.res.error = "unverified")

C6_Witness ==
    /\ IsCopy
    /\ last.res.error = "unverified"
    /\ plist # last.pre
    /\ KeysOf(TargetOf(last)) \cap DOMAIN plist.data # {}

\* the name and the uuid a call looks a layout up with, and the key it used
CallName == IF IsGet THEN last.name ELSE last.sourceName
CallUuid == IF IsGet THEN last.uuid ELSE last.sourceUuid
UsedKey ==
    IF IsGet
    THEN (IF last.res.success THEN last.res.layout.resolvedKey ELSE None)
    ELSE last.res.resolvedSourceKey

\* C7: get_column_layout and copy_column_layout (for its source) look up the
\* exact name, then the uuid if one was supplied, then partial matches, and
\* use the first that finds a layout: the uuid is looked up only after the
\* exact name failed, partial matches only after both failed; when no command
\* fails, a readable layout under the exact name is the one used, and else a
\* readable layout under the uuid.
C7_ResolutionOrder ==
    (last.op # "none" /\ last.res.error # "param") =>
      LET l == last.res.lookups
      IN /\ l["uuid"] # "skipped" => (l["exact"] = "notfound" /\ ~Missing(CallUuid))
         /\ l["fuzzy"] # "skipped" => (l["exact"] = "notfound" /\ l["uuid"] # "found")
         /\ l["exact"] = "found" => UsedKey = CallName
         /\ (l["exact"] = "notfound" /\ l["uuid"] = "found") => UsedKey = CallUuid
         /\ last.env.down = {} =>
              /\ Readable(last.pre, CallName) => UsedKey = CallName
              /\ (~Readable(last.pre, CallName) /\ ~Missing(CallUuid)
                    /\ Readable(last.pre, CallUuid)) =>
                   (UsedKey = CallUuid /\ l["fuzzy"] = "skipped")

\* the uuid is used although partial matching would find a stored name
C7_Witness ==
    /\ IsGet /\ last.env = Quiet /\ last.res.success
    /\ UsedKey = last.uuid /\ last.uuid # last.name
    /\ last.res.note = None
    /\ LET c == findMatchingNames(last.pre, last.name, TRUE)
       IN Len(c) >= 1 /\ Readable(last.pre, c[1])

\* the partial matches a call finds, and the case of exactly one after the
\* exact-name and uuid lookups failed
Candidates == findMatchingNames(last.pre, CallName, "names" \notin last.env.down)
OneCandidate ==
    /\ last.op # "none" /\ last.res.error # "param"
    /\ last.res.lookups["exact"] = "notfound"
    /\ last.res.lookups["uuid"] # "found"
    /\ Len(Candidates) = 1

\* C10: when the exact-name and uuid lookups fail and exactly one
\* known base-name contains the query, that name's layout is used and the
\* successful result is annotated as a partial match, so that it differs from
\* a result found under the exact name.
C10_SingleMatchUsed ==
    OneCandidate =>
      /\ IsGet => /\ last.res.success
                  /\ last.res.layout.resolvedKey = Candidates[1]
                  /\ last.res.note = Candidates[1]
      /\ IsCopy => /\ last.res.resolvedSourceKey = Candidates[1]
                   /\ last.res.success => last.res.resolvedSourceKey # last.sourceName

\* the names saved in the store with a query in them, whatever their number
StoredNames(f) ==
    {k[2] : k \in {x \in DOMAIN f.data : x[1] \in Range(LAYOUT_SUFFIXES)}}
StoredMatches(f, query) ==
    {n \in StoredNames(f) :
        /\ n # <<>> /\ ~startswith(n, Outline)
        /\ includes(toLowerCase(n), toLowerCase(query))}

\* C8: whenever the exact-name and uuid lookups fail and more than one
\* entity base-name of the store contains the query case-insensitively,
\* get_column_layout and copy_column_layout return success=false and use none
\* of the candidates, for any number of stored names, and also when a
\* candidate equals the query case-insensitively.
C8_AmbiguousFails ==
    (/\ last.op # "none" /\ last.res.error # "param"
     /\ last.res.lookups["exact"] = "notfound"
     /\ last.res.lookups["uuid"] # "found"
     /\ Cardinality(StoredMatches(last.pre, CallName)) > 1) =>
       (~last.res.success /\ UsedKey = None /\ plist = last.pre)

\* the candidates a failure result lists
Listed == IF IsGet THEN last.res.partialMatches ELSE last.res.listed

\* C9: when the partial matches are ambiguous, the failure result of
\* get_column_layout and of copy_column_layout lists every matching
\* candidate, whatever their number.
C9_ListsEveryCandidate ==
    (last.op # "none" /\ last.res.error = "ambiguous") =>
       (Listed = Candidates /\ Len(Listed) > 1)

\* a copy that reached its write and whose script was not stopped while it
\* rewrote the file (C3 is about that stop)
Wrote ==
    /\ IsCopy
    /\ last.res.error \in {"none", "copyfailed", "unverified"}
    /\ last.env.cut \notin {"truncated", "partial"}

\* C11: the key copy_column_layout writes under is the target uuid if one was
\* supplied, else the literal target name; the target is never resolved
\* through the partial-match search: the keys written are those of that key,
\* they hold the values of the source's keys, and the keys of every other
\* name (one that contains targetName too) are as they were.
C11_LiteralTarget ==
    Wrote =>
      /\ last.res.resolvedTargetKey = TargetOf(last)
      /\ plist.bytes = "whole"
      /\ \A i \in 1..Len(last.res.keysCopied) :
            last.res.keysCopied[i][2] = TargetOf(last)
      /\ \A k \in DOMAIN last.pre.data \cup DOMAIN plist.data :
            k[2] # TargetOf(last) =>
              /\ k \in DOMAIN last.pre.data \cap DOMAIN plist.data
              /\ plist.data[k] = last.pre.data[k]
      /\ last.res.success =>
            \A k \in KeysOf(last.res.resolvedSourceKey) \cap DOMAIN last.pre.data :
                /\ <<k[1], TargetOf(last)>> \in DOMAIN plist.data
                /\ plist.data[<<k[1], TargetOf(last)>>] = last.pre.data[k]

\* a successful copy to a name with no uuid, while exactly one other stored
\* name contains the target name
C11_Witness ==
    /\ IsCopy /\ last.res.success /\ last.targetUuid = None
    /\ LET m == findMatchingNames(last.pre, last.targetName, TRUE)
       IN /\ Len(m) = 1
          /\ m[1] # last.targetName
          /\ includes(m[1], last.targetName)
          /\ KeysOf(last.targetName) \cap DOMAIN last.pre.data = {}
          /\ KeysOf(last.targetName) \cap DOMAIN plist.data # {}

\* the layout keys of a name the store holds
Present(f, base) == KeysOf(base) \cap DOMAIN f.data

\* C12: readLayoutForName(N) returns not-found if and only if none of the
\* three layout keys of N is present in the store; otherwise keysFound lists
\* exactly the keys that are present, and each of columns, tableViewColumns
\* and widths is non-null exactly when its key is present (seen at the
\* exact-name lookup of get_column_layout, its first call of readLayoutForName).
C12_FoundIffPresent ==
    (IsGet /\ last.res.error # "param") =>
      LET present == Present(last.pre, last.name)
          layout == last.res.layout
      IN /\ (last.res.lookups["exact"] = "notfound") <=> (present = {})
         /\ last.res.lookups["exact"] = "found" =>
               /\ Range(layout.keysFound) = present
               /\ layout.columns.isNull <=> <<1, last.name>> \notin present
               /\ layout.tableViewColumns.isNull <=> <<2, last.name>> \notin present
               /\ layout.widths.isNull <=> <<3, last.name>> \notin present

\* the lookups of the last call whose PlistBuddy commands ran and failed
\* (non-zero exit for another reason than a missing key, or timeout)
FailedLookups ==
    {s \in {"exact", "uuid", "fuzzy"} :
        s \in last.env.down /\ last.res.lookups[s] # "skipped"}

\* C13: if a single-key read subprocess of get_column_layout exits non-zero
\* for a reason other than the key being absent, or times out, the call
\* returns a failure that is not the 'no layout found' result, and the key
\* is not treated as absent.
C13_ReadFailureReported ==
    (IsGet /\ last.res.error # "param" /\ FailedLookups # {}) =>
      /\ ~last.res.success
      /\ last.res.error # "notfound"
      /\ \A s \in FailedLookups : last.res.lookups[s] # "notfound"

\* C2: a get_column_layout of entity N that runs while a copy_column_layout
\* writes to N never returns a mixed triple: the three values it returns all
\* come from one content the store has had, that before the copy or that
\* after it (also when none of its reads finds the file truncated).
C2_NoMixedTriple ==
    \A p \in Procs :
        (/\ procs[p].op = "get" /\ procs[p].pc = "done"
         /\ procs[p].res.success /\ ~procs[p].torn) =>
          \E f \in procs[p].seen :
              Triple(procs[p].res) =
                Triple([layout |-> readLayoutForName(f, procs[p].key, TRUE)])

----------------------------------------------------------------------------
(* src/src/shared/plist/parser.ts: the XML text plutil prints is a         *)
(* sequence of characters, with JavaScript's 0-based positions             *)

\* the longest document, in tags and pieces of text
MaxDoc == 6

DictOpen == <<"<", "d", "i", "c", "t", ">">>
DictClose == <<"<", "/", "d", "i", "c", "t", ">">>

\* what a document is made of: the two dict tags and other text
Pieces == {DictOpen, DictClose, <<"x">>}

Docs == UNION {[1..n -> Pieces] : n \in 0..MaxDoc}

\* the text of a sequence of pieces
RECURSIVE Flatten(_)
Flatten(d) == IF d = <<>> THEN <<>> ELSE Head(d) \o Flatten(Tail(d))

\* s.indexOf(sub, from)
indexOf(s, sub, from) ==
    LET hits == {i \in from..(Len(s) - Len(sub)) : SubSeq(s, i + 1, i + Len(sub)) = sub}
    IN IF hits = {} THEN -1 ELSE CHOOSE i \in hits : \A j \in hits : i <= j

\* s.slice(a, b)
slice(s, a, b) == SubSeq(s, a + 1, b)

\* a scan that takes the first closing tag for the end of the block
scanBlockFlat(xml, cur, depth) ==
    LET nextClose == indexOf(xml, DictClose, cur)
    IN IF nextClose = -1 THEN [depth |-> depth, close |-> -1]
       ELSE [depth |-> 0, close |-> nextClose]

\* the inner while loop of extractTopLevelDicts: the depth it ends with and,
\* at depth 0, the position of the closing tag
RECURSIVE scanBlock(_, _, _)
scanBlock(xml, cur, depth) ==
    IF ~(cur < Len(xml) /\ depth > 0) THEN [depth |-> depth, close |-> -1]
    ELSE LET nextOpen == indexOf(xml, DictOpen, cur)
             nextClose == indexOf(xml, DictClose, cur)
         IN IF nextClose = -1 THEN [depth |-> depth, close |-> -1]
            ELSE IF nextOpen # -1 /\ nextOpen < nextClose
            THEN scanBlock(xml, nextOpen + 6, depth + 1)
            ELSE IF depth - 1 = 0 THEN [depth |-> 0, close |-> nextClose]
            ELSE scanBlock(xml, nextClose + 7, depth - 1)

\* an outer loop that keeps what follows the <dict> of a block that has
\* no matching close
RECURSIVE extractFromKeep(_, _, _)
extractFromKeep(xml, pos, results) ==
    IF ~(pos < Len(xml)) THEN results
    ELSE LET openIdx == indexOf(xml, DictOpen, pos)
         IN IF openIdx = -1 THEN results
            ELSE LET ends == {scanBlock(xml, openIdx + 6, 1)}
                 IN CHOOSE out \in
                      {IF r.depth # 0 THEN Append(results, slice(xml, openIdx + 6, Len(xml)))
                       ELSE extractFromKeep(xml, r.close + 7,
                                            Append(results, slice(xml, openIdx + 6, r.close))) :
                         r \in ends} : TRUE

\* the outer while loop
RECURSIVE extractFrom(_, _, _)
extractFrom(xml, pos, results) ==
    IF ~(pos < Len(xml)) THEN results
    ELSE LET openIdx == indexOf(xml, DictOpen, pos)
         IN IF openIdx = -1 THEN results
            ELSE LET ends == {scanBlock(xml, openIdx + 6, 1)}
                 IN CHOOSE out \in
                      {IF r.depth # 0 THEN results
                       ELSE extractFrom(xml, r.close + 7,
                                        Append(results, slice(xml, openIdx + 6, r.close))) :
                         r \in ends} : TRUE

extractTopLevelDicts(xml) == extractFrom(xml, 0, <<>>)

----------------------------------------------------------------------------
(* The extractor applied to the documents of Docs *)

InitParse ==
    /\ plist = WholeFile(SetKey(EmptyData, OtherKey, ColsB))
    /\ last = NoCall
    /\ procs = NoProcs
    /\ input \in {[exists |-> TRUE, doc |-> d] : d \in Docs}

ExtractTopLevelDicts ==
    /\ last = NoCall
    /\ last' = [op |-> "extract", xml |-> Flatten(input.doc),
                res |-> extractTopLevelDicts(Flatten(input.doc))]
    /\ UNCHANGED <<plist, procs, input>>

NextParse == ExtractTopLevelDicts \/ Reply

SpecParse == InitParse /\ [][NextParse]_vars

\* the nesting depth after the first i pieces of d; a closing tag outside
\* every block closes nothing
RECURSIVE DepthAfter(_, _)
DepthAfter(d, i) ==
    IF i = 0 THEN 0
    ELSE LET before == DepthAfter(d, i - 1)
         IN IF d[i] = DictOpen THEN before + 1
            ELSE IF d[i] = DictClose /\ before > 0 THEN before - 1
            ELSE before

\* every <dict> has its matching </dict>
WellFormed(d) == DepthAfter(d, Len(d)) = 0

\* the depth-0 blocks of a well-formed d: the piece that opens each and the
\* piece that closes it
TopBlocks(d) ==
    {<<i, j>> \in (1..Len(d)) \X (1..Len(d)) :
        /\ d[i] = DictOpen /\ DepthAfter(d, i - 1) = 0
        /\ i < j /\ DepthAfter(d, j) = 0
        /\ \A m \in i..(j - 1) : DepthAfter(d, m) > 0}

\* the position in the text where piece i of d starts
Offset(d, i) == Len(Flatten(SubSeq(d, 1, i - 1)))

\* C14: for every well-formed document, extractTopLevelDicts returns exactly
\* one string per depth-0 block, in document order, and each string wrapped
\* in <dict>...</dict> is the text of the document from the opening tag of
\* that block to its matching closing tag; a nested block ends no enclosing
\* block early and is no block of its own.
C14_TopLevelBlocks ==
    (last.op = "extract" /\ WellFormed(input.doc)) =>
      LET d == input.doc
          blocks == TopBlocks(d)
          nth(k) == CHOOSE b \in blocks :
                       Cardinality({c \in blocks : c[1] < b[1]}) = k - 1
      IN /\ Len(last.res) = Cardinality(blocks)
         /\ \A k \in 1..Len(last.res) :
               DictOpen \o last.res[k] \o DictClose =
                 slice(last.xml, Offset(d, nth(k)[1]), Offset(d, nth(k)[2] + 1))

\* a well-formed document with two depth-0 blocks, one of them with a block
\* nested in it, has been taken apart
C14_Witness ==
    /\ last.op = "extract" /\ WellFormed(input.doc)
    /\ Len(last.res) = 2
    /\ \E k \in 1..2 : indexOf(last.res[k], DictOpen, 0) # -1

----------------------------------------------------------------------------
(* The typed extractors of parser.ts and the enumerators of                *)
(* list-smart-groups.ts and column-layout.ts (list_smart_rules)            *)

\* the most top-level blocks in a SmartGroups.plist or SmartRules.plist
MaxEntries == 2

\* \s of a regular expression, for the white space plutil prints
Ws == {" ", "\n", "\t", "\r"}

\* the position of the first character at or after i that is no white space
RECURSIVE skipWs(_, _)
skipWs(s, i) == IF i < Len(s) /\ s[i + 1] \in Ws THEN skipWs(s, i + 1) ELSE i

\* s.startsWith(sub, i)
startsAt(s, sub, i) == i + Len(sub) <= Len(s) /\ SubSeq(s, i + 1, i + Len(sub)) = sub

\* String.prototype.trim
RECURSIVE trim(_)
trim(s) ==
    IF s = <<>> THEN s
    ELSE IF Head(s) \in Ws THEN trim(Tail(s))
    ELSE IF s[Len(s)] \in Ws THEN trim(SubSeq(s, 1, Len(s) - 1))
    ELSE s

KeyTag(keyName) == <<"<", "k", "e", "y", ">">> \o keyName \o <<"<", "/", "k", "e", "y", ">">>

\* the leftmost position at which a pattern that begins with
\* <key>keyName</key> matches; rest: the positions at which the text is
\* what the pattern asks after the key and the white space that follows it
firstMatch(content, keyName, rest) ==
    LET key == KeyTag(keyName)
        starts == {i \in 0..(Len(content) - Len(key)) :
                      /\ startsAt(content, key, i)
                      /\ skipWs(content, i + Len(key)) \in rest}
    IN IF starts = {} THEN -1
       ELSE skipWs(content, (CHOOSE i \in starts : \A j \in starts : i <= j) + Len(key))

\* new RegExp(`<key>K</key>\s*<tag>([^<]*)</tag>`).exec(content): m[1]
execTagAfterKey(content, keyName, tag) ==
    LET open == <<"<">> \o tag \o <<">">>
        close == <<"<", "/">> \o tag \o <<">">>
        end(j) == indexOf(content, <<"<">>, j + Len(open))
        rest == {j \in 0..Len(content) :
                    /\ startsAt(content, open, j)
                    /\ end(j) # -1
                    /\ startsAt(content, close, end(j))}
        at == firstMatch(content, keyName, rest)
    IN IF at = -1 THEN NullValue
       ELSE Value(slice(content, at + Len(open), end(at)))

extractStringAfterKey(content, keyName) ==
    LET m == execTagAfterKey(content, keyName, <<"s", "t", "r", "i", "n", "g">>)
    IN IF m.isNull THEN NullValue ELSE Value(trim(m.v))

extractDateAfterKey(content, keyName) ==
    LET m == execTagAfterKey(content, keyName, <<"d", "a", "t", "e">>)
    IN IF m.isNull THEN NullValue ELSE Value(trim(m.v))

TrueTag == <<"<", "t", "r", "u", "e", "/", ">">>
FalseTag == <<"<", "f", "a", "l", "s", "e", "/", ">">>

\* <key>K</key>\s*<(true|false)\/>
extractBoolAfterKey(content, keyName) ==
    LET rest == {j \in 0..Len(content) :
                    startsAt(content, TrueTag, j) \/ startsAt(content, FalseTag, j)}
        at == firstMatch(content, keyName, rest)
    IN IF at = -1 THEN NullValue ELSE Value(startsAt(content, TrueTag, at))

\* parseInt(t, 10) and parseFloat(t) of a text of digits
RECURSIVE parseDigits(_)
parseDigits(t) ==
    IF t = <<>> THEN 0
    ELSE 10 * parseDigits(SubSeq(t, 1, Len(t) - 1))
         + ((CHOOSE i \in 1..10 : Digits[i] = t[Len(t)]) - 1)

extractIntegerAfterKey(content, keyName) ==
    LET m == execTagAfterKey(content, keyName, <<"i", "n", "t", "e", "g", "e", "r">>)
    IN IF m.isNull THEN NullValue ELSE Value(parseDigits(trim(m.v)))

extractRealAfterKey(content, keyName) ==
    LET m == execTagAfterKey(content, keyName, <<"r", "e", "a", "l">>)
    IN IF m.isNull THEN NullValue ELSE Value(parseDigits(trim(m.v)))

\* a sub-block that ends at the first closing tag after its <dict>
extractSubDictFlat(content, keyName) ==
    LET rest == {j \in 0..Len(content) : startsAt(content, DictOpen, j)}
        at == firstMatch(content, keyName, rest)
        startPos == at + 6
        found == scanBlockFlat(content, startPos, 1)
    IN IF at = -1 \/ found.depth # 0 THEN NullValue
       ELSE Value(slice(content, startPos, found.close))

\* the inner content of the <dict> after <key>keyName</key>; its loop is
\* that of extractTopLevelDicts
extractSubDictAfterKey(content, keyName) ==
    LET rest == {j \in 0..Len(content) : startsAt(content, DictOpen, j)}
        at == firstMatch(content, keyName, rest)
        startPos == at + 6
        found == scanBlock(content, startPos, 1)
    IN IF at = -1 \/ found.depth # 0 THEN NullValue
       ELSE Value(slice(content, startPos, found.close))

\* the labels the enumerators look for
PlistKeys ==
    [Name |-> <<"n", "a", "m", "e">>,
     Sync |-> <<"s", "y", "n", "c">>,
     UUID |-> <<"U", "U", "I", "D">>,
     Date |-> <<"d", "a", "t", "e">>,
     UseUUIDKey |-> <<"U", "s", "e", "U", "U", "I", "D", "K", "e", "y">>,
     Enabled |-> <<"E", "n", "a", "b", "l", "e", "d">>,
     IndexOffset |-> <<"I", "n", "d", "e", "x", "O", "f", "f", "s", "e", "t">>,
     LastExecution |-> <<"L", "a", "s", "t", "E", "x", "e", "c", "u", "t", "i", "o", "n">>]

Unnamed == <<"(", "u", "n", "n", "a", "m", "e", "d", ")">>

\* !s for a string or null
FalsyStr(x) == x.isNull \/ x.v = <<>>

\* what the enumerators read in one top-level block
syncContent(dictContent) == extractSubDictAfterKey(dictContent, PlistKeys.Sync)
nameOf(dictContent) == extractStringAfterKey(dictContent, PlistKeys.Name)
uuidOf(dictContent) ==
    IF FalsyStr(syncContent(dictContent)) THEN NullValue
    ELSE extractStringAfterKey(syncContent(dictContent).v, PlistKeys.UUID)
syncDateOf(dictContent) ==
    IF FalsyStr(syncContent(dictContent)) THEN NullValue
    ELSE extractDateAfterKey(syncContent(dictContent).v, PlistKeys.Date)

\* if (!name && !uuid) continue
retained(dictContent) ==
    ~(FalsyStr(nameOf(dictContent)) /\ FalsyStr(uuidOf(dictContent)))

\* name ?? "(unnamed)", uuid ?? ""
nameOrDefault(name) == IF name.isNull THEN Unnamed ELSE name.v
uuidOrDefault(uuid) == IF uuid.isNull THEN <<>> ELSE uuid.v

SmartGroupEntry(dictContent) ==
    [name |-> nameOrDefault(nameOf(dictContent)),
     uuid |-> uuidOrDefault(uuidOf(dictContent)),
     syncDate |-> syncDateOf(dictContent),
     useUuidKey |-> extractBoolAfterKey(dictContent, PlistKeys.UseUUIDKey)]

SmartRuleEntry(dictContent) ==
    [name |-> nameOrDefault(nameOf(dictContent)),
     uuid |-> uuidOrDefault(uuidOf(dictContent)),
     enabled |-> extractBoolAfterKey(dictContent, PlistKeys.Enabled),
     indexOffset |-> extractIntegerAfterKey(dictContent, PlistKeys.IndexOffset),
     lastExecution |-> extractRealAfterKey(dictContent, PlistKeys.LastExecution),
     syncDate |-> syncDateOf(dictContent),
     useUuidKey |-> extractBoolAfterKey(dictContent, PlistKeys.UseUUIDKey)]

parsePlistXmlToSmartGroups(xml) ==
    LET kept == SelectSeq(extractTopLevelDicts(xml), retained)
    IN [i \in 1..Len(kept) |-> SmartGroupEntry(kept[i])]

parsePlistXmlToSmartRules(xml) ==
    LET kept == SelectSeq(extractTopLevelDicts(xml), retained)
    IN [i \in 1..Len(kept) |-> SmartRuleEntry(kept[i])]

\* the collation of the characters of the names: punctuation before
\* letters, letters in the order of the alphabet whatever their case, and
\* for the same letter the small one first
Collation ==
    ("(" :> <<1, 0>>) @@ (")" :> <<2, 0>>) @@ ("a" :> <<10, 0>>)
    @@ ("A" :> <<10, 1>>) @@ ("b" :> <<11, 0>>) @@ ("B" :> <<11, 1>>)
    @@ ("d" :> <<13, 0>>) @@ ("e" :> <<14, 0>>) @@ ("m" :> <<22, 0>>)
    @@ ("n" :> <<23, 0>>) @@ ("u" :> <<30, 0>>)

\* the order of two sequences of numbers: a proper prefix first
RECURSIVE Lex(_, _)
Lex(a, b) ==
    IF a = <<>> THEN (IF b = <<>> THEN 0 ELSE -1)
    ELSE IF b = <<>> THEN 1
    ELSE IF Head(a) < Head(b) THEN -1
    ELSE IF Head(a) > Head(b) THEN 1
    ELSE Lex(Tail(a), Tail(b))

\* a.localeCompare(b): the letters first, their case second
localeCompare(a, b) ==
    LET level(s, l) == [i \in 1..Len(s) |-> Collation[s[i]][l]]
        letters == Lex(level(a, 1), level(b, 1))
    IN IF letters # 0 THEN letters ELSE Lex(level(a, 2), level(b, 2))

\* the entries left in the order of the document
sortByNameNot(entries) == entries

\* entries.sort((a, b) => a.name.localeCompare(b.name)); the sort is stable
RECURSIVE sortByName(_)
sortByName(entries) ==
    IF entries = <<>> THEN <<>>
    ELSE LET n == Len(entries)
             e == entries[n]
             front == sortByName(SubSeq(entries, 1, n - 1))
             before == SelectSeq(front, LAMBDA x : localeCompare(x.name, e.name) <= 0)
             after == SelectSeq(front, LAMBDA x : localeCompare(x.name, e.name) > 0)
         IN before \o <<e>> \o after

\* the two files and the results of their enumerators
GroupsPath == "SmartGroups.plist"
RulesPath == "SmartRules.plist"

\* the parser of the entries of the file at a path
parseEntries(path, xml) ==
    IF path = GroupsPath THEN parsePlistXmlToSmartGroups(xml)
    ELSE parsePlistXmlToSmartRules(xml)

ListResult(success, error, entries, ran) ==
    [success |-> success, error |-> error, entries |-> entries,
     totalCount |-> IF entries.isNull THEN NullValue ELSE Value(Len(entries.v)),
     ran |-> ran]

NoError == [kind |-> "none", text |-> ""]

\* an enumerator that starts the conversion whether the file is there or
\* not, and takes a failed conversion for an empty document
listEntriesBlind(path, f, convert) ==
    IF convert # "ok" \/ ~f.exists
    THEN ListResult(TRUE, NoError, Value(<<>>), TRUE)
    ELSE ListResult(TRUE, NoError, Value(sortByName(parseEntries(path, Flatten(f.doc)))), TRUE)

\* an enumerator: the file at its PLIST_PATH, what plutil does (prints the
\* XML text, or fails with a message);
\* ran: the conversion command was started (not part of the result)
listEntries(path, f, convert) ==
    IF ~f.exists
    THEN ListResult(FALSE, [kind |-> "missing", text |-> path], NullValue, FALSE)
    ELSE IF convert # "ok"
    THEN ListResult(FALSE, [kind |-> "convert", text |-> convert], NullValue, TRUE)
    ELSE ListResult(TRUE, NoError, Value(sortByName(parseEntries(path, Flatten(f.doc)))), TRUE)

listSmartGroups(f, convert) == listEntries(GroupsPath, f, convert)

listSmartRules(f, convert) == listEntries(RulesPath, f, convert)

----------------------------------------------------------------------------
(* The enumerators applied to the files DEVONthink can have written: what  *)
(* plutil prints for a file is the text of its blocks                      *)

NewLine == <<"\n", "\t">>
ArrayOpen == <<"<", "a", "r", "r", "a", "y", ">">>
ArrayClose == <<"<", "/", "a", "r", "r", "a", "y", ">">>

StringTag(v) == <<"<", "s", "t", "r", "i", "n", "g", ">">> \o v \o <<"<", "/", "s", "t", "r", "i", "n", "g", ">">>
DateTag(v) == <<"<", "d", "a", "t", "e", ">">> \o v \o <<"<", "/", "d", "a", "t", "e", ">">>
IntegerTag(v) == <<"<", "i", "n", "t", "e", "g", "e", "r", ">">> \o v \o <<"<", "/", "i", "n", "t", "e", "g", "e", "r", ">">>

\* a block with the name and the sync UUID given (or none), and more
\* between them
Block(name, uuid, more) ==
    [name |-> name, uuid |-> uuid,
     pieces |->
       <<DictOpen>>
       \o (IF name.isNull THEN <<>>
           ELSE <<KeyTag(PlistKeys.Name), NewLine, StringTag(name.v)>>)
       \o more
       \o (IF uuid.isNull THEN <<>>
           ELSE <<KeyTag(PlistKeys.Sync), NewLine, DictOpen,
                  KeyTag(PlistKeys.UUID), StringTag(uuid.v),
                  KeyTag(PlistKeys.Date), DateTag(<<"D">>), DictClose>>)
       \o <<DictClose>>]

\* two entries of one name, an entry without uuid, one without name, an
\* empty block, and blocks whose name is an empty or a blank string
EntryBlocks ==
    {Block(Value(<<"a">>), Value(<<"1">>), <<>>),
     Block(Value(<<"a">>), Value(<<"2">>), <<KeyTag(PlistKeys.Enabled), FalseTag>>),
     Block(Value(<<"B">>), NullValue, <<KeyTag(PlistKeys.UseUUIDKey), NewLine, TrueTag>>),
     Block(NullValue, Value(<<"3">>), <<KeyTag(PlistKeys.IndexOffset), IntegerTag(<<"1", "2">>)>>),
     Block(NullValue, NullValue, <<>>),
     Block(Value(<<>>), Value(<<"4">>), <<>>),
     Block(Value(<<" ">>), NullValue, <<>>)}

RECURSIVE Render(_)
Render(bs) == IF bs = <<>> THEN <<>> ELSE Head(bs).pieces \o Render(Tail(bs))

\* the files: none, or one with up to MaxEntries blocks
ListFiles ==
    {NoFile} \cup
    {[exists |-> TRUE, doc |-> <<ArrayOpen>> \o Render(bs) \o <<ArrayClose>>,
      blocks |-> bs] :
        bs \in UNION {[1..n -> EntryBlocks] : n \in 0..MaxEntries}}

\* what plutil does: it prints the XML text, exits non-zero, or is timed out
Converts == {"ok", "exit 1", "ETIMEDOUT"}

InitLists ==
    /\ plist = WholeFile(SetKey(EmptyData, OtherKey, ColsB))
    /\ last = NoCall
    /\ procs = NoProcs
    /\ input \in ListFiles

ListSmartGroups(convert) ==
    /\ last = NoCall
    /\ last' = [op |-> "groups", path |-> GroupsPath, convert |-> convert,
                res |-> listSmartGroups(input, convert)]
    /\ UNCHANGED <<plist, procs, input>>

ListSmartRules(convert) ==
    /\ last = NoCall
    /\ last' = [op |-> "rules", path |-> RulesPath, convert |-> convert,
                res |-> listSmartRules(input, convert)]
    /\ UNCHANGED <<plist, procs, input>>

NextLists ==
    \/ \E convert \in Converts : ListSmartGroups(convert)
    \/ \E convert \in Converts : ListSmartRules(convert)
    \/ Reply

SpecLists == InitLists /\ [][NextLists]_vars

IsList == last.op \in {"groups", "rules"}
Listing == IsList /\ last.res.success

\* the name and uuid the text of a block gives: none where it has none
\* and where its string is empty or blank
Given(x) == IF x.isNull \/ trim(x.v) = <<>> THEN NullValue ELSE Value(trim(x.v))

\* the blocks of the file that give a name or a uuid
Retained == SelectSeq(input.blocks, LAMBDA b : ~Given(b.name).isNull \/ ~Given(b.uuid).isNull)

C16_EmittedEntries ==
    Listing =>
      LET es == last.res.entries.v
          entryOf(b, e) ==
              /\ e.name = IF Given(b.name).isNull THEN Unnamed ELSE Given(b.name).v
              /\ e.uuid = IF Given(b.uuid).isNull THEN <<>> ELSE Given(b.uuid).v
      IN /\ Len(es) = Len(Retained)
         /\ \E pi \in [1..Len(es) -> 1..Len(es)] :
               /\ \A i, j \in 1..Len(es) : pi[i] = pi[j] => i = j
               /\ \A i \in 1..Len(es) : entryOf(Retained[pi[i]], es[i])
         /\ \A i \in 1..Len(es) : ~(es[i].name = <<>> /\ es[i].uuid = <<>>)

\* C17: list_smart_groups and list_smart_rules: if the plist file does not
\* exist, the result is success=false naming the expected path and the
\* conversion command is never run; if the conversion command fails or
\* times out, the result is success=false carrying the command's error text
\* and no entry list.
C17_ListFailures ==
    IsList =>
      /\ ~input.exists =>
            /\ ~last.res.success
            /\ last.res.error = [kind |-> "missing", text |-> last.path]
            /\ ~last.res.ran
            /\ last.res.entries.isNull
      /\ (input.exists /\ last.convert # "ok") =>
            /\ ~last.res.success
            /\ last.res.error = [kind |-> "convert", text |-> last.convert]
            /\ last.res.entries.isNull /\ last.res.totalCount.isNull

\* the conversion of a file that is there was timed out
C17_Witness ==
    /\ IsList /\ input.exists /\ input.blocks # <<>>
    /\ last.convert = "ETIMEDOUT" /\ ~last.res.success

----------------------------------------------------------------------------
(* src/src/tools/custom/parse-eml-headers.ts: a file is the sequence of    *)
(* its bytes, all of them ASCII, so that a byte is a character             *)

\* the most lines in the part of an .eml file that is looked at
MaxLines == 4

HEADER_READ_LIMIT == 65536

\* the most bytes by which a long run of bytes in a file falls short of the
\* read limit
MaxShort == 17

\* a run of n bytes "x" of a file, kept as one element of its bytes
Run(n) == IF n = 1 THEN "x" ELSE "x*" \o ToString(n)

\* the lengths of the long runs of the files: 70000 bytes, and the read
\* limit or a few bytes less
RunLengths == {70000} \cup {HEADER_READ_LIMIT - k : k \in 0..MaxShort}
RunTokens == {Run(n) : n \in RunLengths}

\* the number of bytes of one element of a file's bytes
byteLength(c) == IF c \in RunTokens THEN CHOOSE n \in RunLengths : Run(n) = c ELSE 1

\* a read that does not stop at end
createReadStreamWhole(bytes, end) == bytes

\* createReadStream(filePath, {start: 0, end}), the chunks concatenated:
\* the bytes 0 to end of the file, or all of them if it is shorter (a file
\* of single bytes that is no longer than that is read whole)
RECURSIVE readFrom(_, _, _)
readFrom(bytes, i, room) ==
    IF i > Len(bytes) \/ room = 0 THEN <<>>
    ELSE IF byteLength(bytes[i]) <= room
    THEN <<bytes[i]>> \o readFrom(bytes, i + 1, room - byteLength(bytes[i]))
    ELSE <<Run(room)>>

createReadStream(bytes, end) ==
    IF Len(bytes) <= end + 1 /\ \A i \in 1..Len(bytes) : bytes[i] \notin RunTokens
    THEN bytes
    ELSE readFrom(bytes, 1, end + 1)

Cr == "\r"
Lf == "\n"
CrLf == <<Cr, Lf>>

UpperLetters == <<"A", "B", "C", "D", "E", "F", "G", "H", "I", "J", "K", "L", "M", "N", "O", "P", "Q", "R", "S", "T", "U", "V", "W", "X", "Y", "Z">>
LowerLetters == <<"a", "b", "c", "d", "e", "f", "g", "h", "i", "j", "k", "l", "m", "n", "o", "p", "q", "r", "s", "t", "u", "v", "w", "x", "y", "z">>

UpperToLower == [c \in Range(UpperLetters) |-> LowerLetters[CHOOSE i \in 1..26 : UpperLetters[i] = c]]

\* String.prototype.toLowerCase on ASCII text
toLowerCaseAscii(t) ==
    [i \in 1..Len(t) |-> IF t[i] \in DOMAIN UpperToLower THEN UpperToLower[t[i]] ELSE t[i]]

\* headerSection.replace(/\r\n/g, "\n")
RECURSIVE normalise(_)
normalise(t) ==
    IF t = <<>> THEN <<>>
    ELSE IF Len(t) >= 2 /\ t[1] = Cr /\ t[2] = Lf THEN <<Lf>> \o normalise(SubSeq(t, 3, Len(t)))
    ELSE <<Head(t)>> \o normalise(Tail(t))

\* normalised.split("\n")
RECURSIVE split(_)
split(t) ==
    LET at == indexOf(t, <<Lf>>, 0)
    IN IF at = -1 THEN <<t>>
       ELSE <<slice(t, 0, at)>> \o split(SubSeq(t, at + 2, Len(t)))

Blank == {" ", "\t"}

\* the position of the first character at or after i that is no space or tab
RECURSIVE skipBlank(_, _)
skipBlank(t, i) == IF i < Len(t) /\ t[i + 1] \in Blank THEN skipBlank(t, i + 1) ELSE i

\* a value whose folds are left in it
unfoldNot(t) == t

\* currentValue.replace(/\n[ \t]+/g, " ")
RECURSIVE unfold(_)
unfold(t) ==
    IF t = <<>> THEN <<>>
    ELSE IF Len(t) >= 2 /\ t[1] = Lf /\ t[2] \in Blank
    THEN <<" ">> \o unfold(SubSeq(t, skipBlank(t, 1) + 1, Len(t)))
    ELSE <<Head(t)>> \o unfold(Tail(t))

NoHeaders == [k \in {} |-> <<>>]

NoCurrent == [name |-> NullValue, value |-> <<>>]

\* flush(): the header in progress goes into the map, a repeated name after
\* a newline
flush(current, headers) ==
    IF current.name.isNull THEN headers
    ELSE LET unfolded == trim(unfold(current.value))
             key == toLowerCaseAscii(current.name.v)
         IN [k \in DOMAIN headers \cup {key} |->
               IF k # key THEN headers[k]
               ELSE IF key \in DOMAIN headers THEN headers[key] \o <<Lf>> \o unfolded
               ELSE unfolded]

\* line[0] === " " || line[0] === "\t"
isFolded(line) == line # <<>> /\ line[1] \in Blank

\* the loop of parseHeaders from line i on
RECURSIVE parseLines(_, _, _, _)
parseLines(lines, i, current, headers) ==
    IF i > Len(lines) \/ lines[i] = <<>> THEN flush(current, headers)
    ELSE IF isFolded(lines[i])
    THEN parseLines(lines, i + 1,
                    IF current.name.isNull THEN current
                    ELSE [current EXCEPT !.value = @ \o <<Lf>> \o lines[i]],
                    headers)
    ELSE LET colonIdx == indexOf(lines[i], <<":">>, 0)
             started == IF colonIdx > 0
                        THEN [name |-> Value(trim(slice(lines[i], 0, colonIdx))),
                              value |-> slice(lines[i], colonIdx + 1, Len(lines[i]))]
                        ELSE NoCurrent
         IN parseLines(lines, i + 1, started, flush(current, headers))

parseHeaders(headerSection) ==
    parseLines(split(normalise(headerSection)), 1, NoCurrent, NoHeaders)

\* a match that stops at the first identifier
parseReferencesFirst(raw) ==
    LET open == indexOf(raw, <<"<">>, 0)
        close == indexOf(raw, <<">">>, open + 1)
    IN IF open = -1 \/ close = -1 THEN <<>> ELSE <<slice(raw, open, close + 1)>>

\* raw.match(/<[^>]+>/g) ?? []
RECURSIVE parseReferences(_)
parseReferences(raw) ==
    LET open == indexOf(raw, <<"<">>, 0)
        close == indexOf(raw, <<">">>, open + 1)
    IN IF open = -1 \/ close = -1 THEN <<>>
       ELSE IF close = open + 1 THEN parseReferences(SubSeq(raw, open + 2, Len(raw)))
       ELSE <<slice(raw, open, close + 1)>> \o parseReferences(SubSeq(raw, close + 2, Len(raw)))

\* the printable characters of <<"a", "s", "c", "i", "i">> in the order of their codes, from 32 on
Ascii ==
    <<" ", "!", "\"", "#", "$", "%", "&", "'", "(", ")", "*", "+", ",", "-", ".", "/">>
    \o Digits \o <<":", ";", "<", "=", ">", "?", "@">> \o UpperLetters
    \o <<"[", "\\", "]", "^", "_", "U+96">> \o LowerLetters \o <<"{", "|", "}", "~">>

\* the place of a character in a sequence that holds it
PositionIn(s, c) == CHOOSE i \in 1..Len(s) : s[i] = c

\* String.fromCharCode(n); a character that is not printable <<"a", "s", "c", "i", "i">>, a tab or
\* a line break is written U+ and its code
fromCharCode(n) ==
    IF n \in 32..126 THEN Ascii[n - 31]
    ELSE IF n = 9 THEN "\t"
    ELSE IF n = 10 THEN Lf
    ELSE IF n = 13 THEN Cr
    ELSE "U+" \o ToString(n)

\* Buffer.from(decoded, "binary"): each character gives the low byte of its
\* code; the characters met have codes below 256
bufferFromBinary(decoded) ==
    [i \in 1..Len(decoded) |-> CHOOSE n \in 0..255 : fromCharCode(n) = decoded[i]]

\* the digits of base 16
HexDigits == Digits \o <<"a", "b", "c", "d", "e", "f">>

\* text.replace(/_/g, " ").replace(/=([0-9A-Fa-f]{2})/g, ...): _ is a space,
\* =HH the character with the code HH
RECURSIVE decodeQ(_)
decodeQ(text) ==
    LET IsHexDigit(c) == c \in Range(HexDigits) \cup {"A", "B", "C", "D", "E", "F"}
        parseHexDigit(c) ==
            IF c \in Range(HexDigits) THEN PositionIn(HexDigits, c) - 1
            ELSE 9 + PositionIn(<<"A", "B", "C", "D", "E", "F">>, c)
    IN IF text = <<>> THEN <<>>
       ELSE IF Head(text) = "_" THEN <<" ">> \o decodeQ(Tail(text))
       ELSE IF Head(text) = "=" /\ Len(text) >= 3 /\ IsHexDigit(text[2]) /\ IsHexDigit(text[3])
       THEN <<fromCharCode(16 * parseHexDigit(text[2]) + parseHexDigit(text[3]))>>
            \o decodeQ(SubSeq(text, 4, Len(text)))
       ELSE <<Head(text)>> \o decodeQ(Tail(text))

\* the characters of base64 in the order of their values; - and _ stand for
\* + and / as well
Base64Alphabet == UpperLetters \o LowerLetters \o Digits \o <<"+", "/">>

\* Buffer.from(text, "base64"): it never throws; it stops at the first =,
\* passes over every character that is not of base64, and gives the whole
\* bytes of the six-bit values it has read
bufferFromBase64(text) ==
    LET stop == indexOf(text, <<"=">>, 0)
        upto == IF stop = -1 THEN text ELSE slice(text, 0, stop)
        legal == SelectSeq(upto, LAMBDA c : c \in Range(Base64Alphabet) \cup {"-", "_"})
        value(c) == IF c = "-" THEN 62 ELSE IF c = "_" THEN 63
                    ELSE PositionIn(Base64Alphabet, c) - 1
        s == [i \in 1..Len(legal) |-> value(legal[i])]
        byte(k) ==
            LET i == (8 * k) \div 6
                o == (8 * k) % 6
                two == s[i + 1] * 64 + s[i + 2]
            IN (two \div (IF o = 0 THEN 16 ELSE IF o = 2 THEN 4 ELSE 1)) % 256
    IN [k \in 1..((Len(s) * 6) \div 8) |-> byte(k - 1)]

\* bytes.toString("utf8"): a byte that begins no character or a character
\* that is cut short gives U+FFFD
RECURSIVE utf8Decode(_)
utf8Decode(bytes) ==
    IF bytes = <<>> THEN <<>>
    ELSE LET b == Head(bytes)
             IsContinuation(bs, i) == i <= Len(bs) /\ bs[i] \in 128..191
             rest(n) == utf8Decode(SubSeq(bytes, n + 1, Len(bytes)))
         IN IF b < 128 THEN <<fromCharCode(b)>> \o rest(1)
            ELSE IF b \in 194..223 /\ IsContinuation(bytes, 2)
            THEN <<fromCharCode((b - 192) * 64 + (bytes[2] - 128))>> \o rest(2)
            ELSE IF /\ b \in 224..239 /\ IsContinuation(bytes, 2)
                    /\ (b = 224 => bytes[2] >= 160) /\ (b = 237 => bytes[2] < 160)
            THEN (IF IsContinuation(bytes, 3)
                  THEN <<fromCharCode((b - 224) * 4096 + (bytes[2] - 128) * 64 + (bytes[3] - 128))>> \o rest(3)
                  ELSE <<fromCharCode(65533)>> \o rest(2))
            ELSE <<fromCharCode(65533)>> \o rest(1)

\* buf.toString("base64") and buf.toString("base64url")
base64Slice(bytes, url) ==
    LET n == Len(bytes)
        at(i) == IF i <= n THEN bytes[i] ELSE 0
        ch(v) == IF url /\ v = 62 THEN "-" ELSE IF url /\ v = 63 THEN "_" ELSE Base64Alphabet[v + 1]
        group(g) ==
            LET i == 3 * g + 1
                v == at(i) * 65536 + at(i + 1) * 256 + at(i + 2)
                all == <<ch(v \div 262144), ch((v \div 4096) % 64), ch((v \div 64) % 64), ch(v % 64)>>
                have == IF n - i >= 2 THEN 4 ELSE n - i + 2
            IN SubSeq(all, 1, have)
                 \o (IF url THEN <<>> ELSE [k \in 1..(4 - have) |-> "="])
    IN Flatten([g \in 1..((n + 2) \div 3) |-> group(g - 1)])

\* bytes.toString(enc) for the name of an encoding in small letters; none
\* when enc names no encoding of a Buffer (toString throws)
bufferToString(bytes, enc) ==
    IF enc \in {<<"u", "t", "f", "8">>, <<"u", "t", "f", "-", "8">>} THEN Value(utf8Decode(bytes))
    ELSE IF enc \in {<<"l", "a", "t", "i", "n", "1">>, <<"b", "i", "n", "a", "r", "y">>}
    THEN Value([i \in 1..Len(bytes) |-> fromCharCode(bytes[i])])
    ELSE IF enc = <<"a", "s", "c", "i", "i">> THEN Value([i \in 1..Len(bytes) |-> fromCharCode(bytes[i] % 128)])
    ELSE IF enc = <<"h", "e", "x">>
    THEN Value(Flatten([i \in 1..Len(bytes) |->
                     <<HexDigits[(bytes[i] \div 16) + 1], HexDigits[(bytes[i] % 16) + 1]>>]))
    ELSE IF enc \in {<<"u", "c", "s", "2">>, <<"u", "c", "s", "-", "2">>, <<"u", "t", "f", "1", "6", "l", "e">>, <<"u", "t", "f", "-", "1", "6", "l", "e">>}
    THEN Value([i \in 1..(Len(bytes) \div 2) |-> fromCharCode(bytes[2 * i - 1] + 256 * bytes[2 * i])])
    ELSE IF enc = <<"b", "a", "s", "e", "6", "4">> THEN Value(base64Slice(bytes, FALSE))
    ELSE IF enc = <<"b", "a", "s", "e", "6", "4", "u", "r", "l">> THEN Value(base64Slice(bytes, TRUE))
    ELSE NullValue

\* the callback of decodeEncodedWords: the text of one word, the word
\* itself when the decoding throws (toString of an unknown encoding)
decodeWord(word, charset, encoding, text) ==
    LET bytes == IF encoding \in {"B", "b"} THEN bufferFromBase64(text)
                 ELSE bufferFromBinary(decodeQ(text))
        csLower == toLowerCaseAscii(charset)
        csNorm == IF csLower = <<"u", "s", "-", "a", "s", "c", "i", "i">> THEN <<"a", "s", "c", "i", "i">>
                  ELSE IF csLower \in {<<"i", "s", "o", "-", "8", "8", "5", "9", "-", "1">>, <<"i", "s", "o", "-", "8", "8", "5", "9", "-", "1", "5">>} THEN <<"l", "a", "t", "i", "n", "1">>
                  ELSE csLower
        decoded == bufferToString(bytes, csNorm)
    IN IF decoded.isNull THEN word ELSE decoded.v

\* input.replace(/=\?([^?]+)\?([BbQq])\?([^?]*)\?=/g, ...) from position i on
RECURSIVE decodeFrom(_, _)
decodeFrom(t, i) ==
    IF i >= Len(t) THEN <<>>
    ELSE LET q1 == indexOf(t, <<"?">>, i + 2)
             q2 == indexOf(t, <<"?">>, q1 + 3)
             matches == /\ startsAt(t, <<"=", "?">>, i)
                        /\ q1 > i + 2
                        /\ q1 + 2 < Len(t)
                        /\ t[q1 + 2] \in {"B", "b", "Q", "q"}
                        /\ t[q1 + 3] = "?"
                        /\ q2 # -1
                        /\ startsAt(t, <<"?", "=">>, q2)
         IN IF matches
            THEN decodeWord(slice(t, i, q2 + 2), slice(t, i + 2, q1), t[q1 + 2],
                            slice(t, q1 + 3, q2))
                 \o decodeFrom(t, q2 + 2)
            ELSE <<t[i + 1]>> \o decodeFrom(t, i + 1)

decodeEncodedWords(t) == decodeFrom(t, 0)

CrLfCrLf == <<Cr, Lf, Cr, Lf>>
LfLf == <<Lf, Lf>>

\* a header section that is cut at the first LF LF whatever comes earlier
headerSectionLfFirst(rawContent) ==
    LET lf == indexOf(rawContent, LfLf, 0)
    IN IF lf # -1 THEN slice(rawContent, 0, lf) ELSE rawContent

\* the header section of the buffer read
headerSectionOf(rawContent) ==
    LET crlf == indexOf(rawContent, CrLfCrLf, 0)
        lf == indexOf(rawContent, LfLf, 0)
    IN IF crlf # -1 /\ (lf = -1 \/ crlf < lf) THEN slice(rawContent, 0, crlf)
       ELSE IF lf # -1 THEN slice(rawContent, 0, lf)
       ELSE rawContent

HeaderNames ==
    [MessageId |-> <<"m", "e", "s", "s", "a", "g", "e", "-", "i", "d">>,
     InReplyTo |-> <<"i", "n", "-", "r", "e", "p", "l", "y", "-", "t", "o">>,
     References |-> <<"r", "e", "f", "e", "r", "e", "n", "c", "e", "s">>,
     Subject |-> <<"s", "u", "b", "j", "e", "c", "t">>,
     From |-> <<"f", "r", "o", "m">>,
     To |-> <<"t", "o">>,
     Cc |-> <<"c", "c">>,
     Date |-> <<"d", "a", "t", "e">>]

\* a get(name) that gives an empty text for a header that is absent
getHeaderEmpty(headers, name) ==
    IF name \notin DOMAIN headers THEN Value(<<>>)
    ELSE Value(decodeEncodedWords(trim(headers[name])))

\* get(name)
getHeader(headers, name) ==
    IF name \notin DOMAIN headers THEN NullValue
    ELSE Value(decodeEncodedWords(trim(headers[name])))

EmlResult(success, error, filePath, headerSection, headers) ==
    [success |-> success, error |-> error, filePath |-> filePath,
     messageId |-> getHeader(headers, HeaderNames.MessageId),
     inReplyTo |-> getHeader(headers, HeaderNames.InReplyTo),
     references |-> IF FalsyStr(getHeader(headers, HeaderNames.References)) THEN <<>>
                    ELSE parseReferences(getHeader(headers, HeaderNames.References).v),
     subject |-> getHeader(headers, HeaderNames.Subject),
     from |-> getHeader(headers, HeaderNames.From),
     to |-> getHeader(headers, HeaderNames.To),
     cc |-> getHeader(headers, HeaderNames.Cc),
     date |-> getHeader(headers, HeaderNames.Date),
     headerSection |-> headerSection, headers |-> headers]

\* parseEmlHeaders({filePath}); f: the file at filePath; read: what reading
\* it does ("ok", or the error of the stream).  headerSection and headers
\* are not part of the result.
parseEmlHeaders(filePath, f, read) ==
    IF Missing(filePath)
    THEN EmlResult(FALSE, [kind |-> "param", text |-> ""], None, <<>>, NoHeaders)
    ELSE IF ~f.exists
    THEN EmlResult(FALSE, [kind |-> "missing", text |-> "path"], filePath, <<>>, NoHeaders)
    ELSE IF read # "ok"
    THEN EmlResult(FALSE, [kind |-> "read", text |-> read], filePath, <<>>, NoHeaders)
    ELSE LET rawContent == createReadStream(f.bytes, HEADER_READ_LIMIT - 1)
             headerSection == headerSectionOf(rawContent)
         IN EmlResult(TRUE, NoError, filePath, headerSection, parseHeaders(headerSection))

----------------------------------------------------------------------------
(* parse_eml_headers applied to files of a few lines *)

\* the lines of the files, each with the line break that ends it
EmlLines ==
    {<<"S", "u", "b", "j", "e", "c", "t", ":", " ", "P", "a", "r", "t", "1">> \o <<Lf>>, <<" ", "P", "a", "r", "t", "2">> \o <<Lf>>, <<" ", "P", "a", "r", "t", "2">> \o CrLf, <<"T", "o", " ", ":", " ", "x">> \o CrLf,
     <<"j", "u", "n", "k">> \o <<Lf>>, <<":", "x">> \o <<Lf>>, <<Lf>>, CrLf}

EmlFiles ==
    {NoFile} \cup
    {[exists |-> TRUE, bytes |-> Flatten(ls), lines |-> ls] :
        ls \in UNION {[1..n -> EmlLines] : n \in 0..MaxLines}}

EmlPath == <<"m">>

Reads == {"ok", "EACCES"}

InitEml ==
    /\ plist = WholeFile(SetKey(EmptyData, OtherKey, ColsB))
    /\ last = NoCall
    /\ procs = NoProcs
    /\ input \in EmlFiles

ParseEmlHeaders(filePath, read) ==
    /\ last = NoCall
    /\ last' = [op |-> "eml", filePath |-> filePath, read |-> read,
                res |-> parseEmlHeaders(filePath, input, read)]
    /\ UNCHANGED <<plist, procs, input>>

NextEml ==
    \/ \E read \in Reads : ParseEmlHeaders(EmlPath, read)
    \/ ParseEmlHeaders(None, "ok")
    \/ Reply

SpecEml == InitEml /\ [][NextEml]_vars

IsEml == last.op = "eml"
Parsed == IsEml /\ last.res.success

\* the fields of a result
Fields(res) ==
    <<res.messageId, res.inReplyTo, res.references, res.subject, res.from,
      res.to, res.cc, res.date>>

\* where CRLF CRLF or LF LF starts in the file
Boundaries == {i \in 0..Len(input.bytes) : startsAt(input.bytes, CrLfCrLf, i) \/ startsAt(input.bytes, LfLf, i)}
FirstBoundary == CHOOSE i \in Boundaries : \A j \in Boundaries : i <= j
AfterBoundary == FirstBoundary + (IF startsAt(input.bytes, CrLfCrLf, FirstBoundary) THEN 4 ELSE 2)

\* C19: the header section parse_eml_headers parses is the prefix of the
\* buffer read that ends just before the earliest CRLF CRLF or LF LF,
\* whichever starts first, and the whole buffer if there is neither; no line
\* after that boundary contributes to a returned field: the fields are the
\* same whatever line follows the boundary.
C19_HeaderSection ==
    Parsed =>
      /\ last.res.headerSection =
           IF Boundaries = {} THEN input.bytes ELSE slice(input.bytes, 0, FirstBoundary)
      /\ Boundaries # {} =>
           \A l \in EmlLines \cup {<<>>} :
              Fields(parseEmlHeaders(last.filePath,
                        [exists |-> TRUE,
                         bytes |-> slice(input.bytes, 0, AfterBoundary) \o l],
                        "ok"))
                = Fields(last.res)

\* a file with a header before its first blank line and a Subject line
\* after it was parsed
C19_Witness ==
    /\ Parsed /\ Boundaries # {}
    /\ indexOf(input.bytes, <<"S", "u", "b", "j", "e", "c", "t", ":">>, AfterBoundary) # -1
    /\ last.res.subject.isNull /\ ~last.res.to.isNull

\* a line of a file without the line break that ends it
Unbroken(l) == SelectSeq(l, LAMBDA c : c \notin {Cr, Lf})

\* the header lines of a file: those before its first empty line
HeaderLines ==
    LET ls == [i \in 1..Len(input.lines) |-> Unbroken(input.lines[i])]
        empty == {i \in 1..Len(ls) : ls[i] = <<>>}
    IN IF empty = {} THEN ls
       ELSE SubSeq(ls, 1, (CHOOSE i \in empty : \A j \in empty : i <= j) - 1)

\* a line without leading white space that has a colon, and one that has
\* a colon after its first character
HasColon(line) == ~isFolded(line) /\ indexOf(line, <<":">>, 0) # -1
HasName(line) == ~isFolded(line) /\ indexOf(line, <<":">>, 0) > 0

\* text that begins with one space for each leading run of spaces and tabs
OneSpace(line) == <<" ">> \o SubSeq(line, skipBlank(line, 0) + 1, Len(line))

RECURSIVE Joined(_, _)
Joined(texts, sep) ==
    IF texts = <<>> THEN <<>>
    ELSE IF Len(texts) = 1 THEN texts[1]
    ELSE texts[1] \o sep \o Joined(Tail(texts), sep)

\* the headers of the lines hl: starts: the lines that start a header;
\* ends: the lines that end the header before them.  A folded line belongs
\* to the last line before it that starts or ends a header.
HeadersOf(hl, starts, ends) ==
    LET n == Len(hl)
        owner(k) ==
            LET c == {i \in 1..(k - 1) : i \in starts \/ i \in ends}
            IN IF c = {} THEN 0 ELSE CHOOSE i \in c : \A j \in c : j <= i
        colon(i) == indexOf(hl[i], <<":">>, 0)
        name(i) == toLowerCaseAscii(trim(slice(hl[i], 0, colon(i))))
        folds(i) == SelectSeq([k \in 1..n |-> IF isFolded(hl[k]) /\ owner(k) = i
                                                  THEN OneSpace(hl[k]) ELSE <<>>],
                              LAMBDA t : t # <<>>)
        value(i) == trim(slice(hl[i], colon(i) + 1, Len(hl[i])) \o Joined(folds(i), <<>>))
        lines(nm) == SelectSeq([i \in 1..n |-> IF i \in starts /\ name(i) = nm
                                                 THEN <<i>> ELSE <<>>],
                               LAMBDA t : t # <<>>)
        names == {name(i) : i \in starts}
    IN [nm \in names |->
          Joined([j \in 1..Len(lines(nm)) |-> value(lines(nm)[j][1])], <<Lf>>)]


\* C20 as stated: a line beginning with a space or tab is appended to the
\* value of the previous header and starts none, each fold becomes one space
\* in the reported value, and a line with no leading white space that
\* contains a colon starts a new header named by the trimmed text before its
\* first colon.
C20_Folding ==
    Parsed => last.res.headers = HeadersOf(HeaderLines, {i \in 1..Len(HeaderLines) : HasColon(HeaderLines[i])}, {})

\* C20: a line beginning with a space or tab starts no header; it is
\* appended to the value of the header started by the nearest line before it
\* that has no leading white space, and dropped when that line started none;
\* each fold becomes one space and the value is trimmed; a line with no
\* leading white space whose first colon is not its first character starts a
\* header named by the trimmed text before that colon.
C20_FoldingOfStartedHeaders ==
    Parsed => last.res.headers = HeadersOf(HeaderLines, {i \in 1..Len(HeaderLines) : HasName(HeaderLines[i])}, {i \in 1..Len(HeaderLines) : ~isFolded(HeaderLines[i])})

\* Subject: Part1 followed by " Part2" gave the subject "Part1 Part2"
C20_Witness ==
    /\ Parsed
    /\ Len(HeaderLines) >= 2
    /\ HeaderLines[1] = <<"S", "u", "b", "j", "e", "c", "t", ":", " ", "P", "a", "r", "t", "1">> /\ HeaderLines[2] = <<" ", "P", "a", "r", "t", "2">>
    /\ last.res.subject = Value(<<"P", "a", "r", "t", "1", " ", "P", "a", "r", "t", "2">>)

\* C18: every execution of list_smart_groups, list_smart_rules,
\* get_column_layout, copy_column_layout and parse_eml_headers ends by
\* returning a result with a boolean success, and with an error whenever
\* success is false; no execution ends with an exception that leaves the
\* operation, whatever the external commands and file reads do.
C18_AlwaysAResult ==
    /\ (IsGet \/ IsCopy) =>
          /\ last.res.error # "TypeError"
          /\ last.res.success \in BOOLEAN
          /\ ~last.res.success => last.res.error # "none"
    /\ (IsList \/ IsEml) =>
          /\ last.res.success \in BOOLEAN
          /\ ~last.res.success => last.res.error.kind # "none"

----------------------------------------------------------------------------
(* parse_eml_headers applied to files whose headers repeat, list message   *)
(* identifiers and hold encoded words                                      *)

\* the encoded word of a charset, an encoding and a text
Word(charset, encoding, text) ==
    <<"=", "?">> \o charset \o <<"?", encoding, "?">> \o text \o <<"?", "=">>

\* the bytes of a text in UTF-8 and in ISO 8859-1, for characters below
\* U+0800 and U+0100
Utf8Bytes(plain) ==
    Flatten([i \in 1..Len(plain) |->
                LET n == CHOOSE n \in 0..2047 : fromCharCode(n) = plain[i]
                IN IF n < 128 THEN <<n>> ELSE <<192 + (n \div 64), 128 + (n % 64)>>])
Latin1Bytes(plain) == [i \in 1..Len(plain) |-> CHOOSE n \in 0..255 : fromCharCode(n) = plain[i]]

\* the Q text of bytes: a letter or digit stands for itself, _ for a
\* space, =HH for any other byte
QText(bytes) ==
    Flatten([i \in 1..Len(bytes) |->
                IF fromCharCode(bytes[i]) \in Range(UpperLetters \o LowerLetters \o Digits)
                THEN <<fromCharCode(bytes[i])>>
                ELSE IF bytes[i] = 32 THEN <<"_">>
                ELSE <<"=", (Digits \o <<"A", "B", "C", "D", "E", "F">>)[(bytes[i] \div 16) + 1], (Digits \o <<"A", "B", "C", "D", "E", "F">>)[(bytes[i] % 16) + 1]>>])

\* a part of a header value: the text in the file and the text it stands for
Literal(text) == [text |-> text, plain |-> text]
Encoded(charset, encoding, text, plain) == [text |-> Word(charset, encoding, text), plain |-> plain]
Undecodable(charset, encoding, text) == Literal(Word(charset, encoding, text))

Hello == <<"h", fromCharCode(233), "l", "l", "o">>

\* a header line of parts: its name, the line of the file and the value
\* its parts stand for
WordHeader(name, parts) ==
    [name |-> toLowerCaseAscii(name),
     line |-> name \o <<":", " ">> \o Flatten([i \in 1..Len(parts) |-> parts[i].text]) \o <<Lf>>,
     value |-> Flatten([i \in 1..Len(parts) |-> parts[i].plain])]

\* the spec's example; plain text around a Q word and a word of a charset
\* that is not supported; a word of ISO 8859-1; a word that says B and
\* holds no base64
WordHeaders ==
    {WordHeader(<<"S", "u", "b", "j", "e", "c", "t">>, <<Encoded(<<"U", "T", "F", "-", "8">>, "B", base64Slice(Utf8Bytes(Hello), FALSE), Hello)>>),
     WordHeader(<<"T", "o">>, <<Literal(<<"x">>),
                      Encoded(<<"u", "t", "f", "-", "8">>, "q", QText(Utf8Bytes(<<"a", " ", "b", "_", "=">>)), <<"a", " ", "b", "_", "=">>),
                      Literal(<<" ", "y">>),
                      Undecodable(<<"k", "o", "i", "8", "-", "r">>, "Q", <<"z">>)>>),
     WordHeader(<<"F", "r", "o", "m">>, <<Encoded(<<"I", "S", "O", "-", "8", "8", "5", "9", "-", "1">>, "Q", QText(Latin1Bytes(<<fromCharCode(233)>>)), <<fromCharCode(233)>>)>>),
     WordHeader(<<"C", "c">>, <<Undecodable(<<"u", "t", "f", "-", "8">>, "B", <<"!">>)>>)}


\* the most lines in such a file
MaxFieldLines == 3

\* a header, the same header in capitals with no value, a folded line, two
\* References headers, a line that is no header, the empty line, and the
\* headers with encoded words
FieldLines ==
    {<<"S", "u", "b", "j", "e", "c", "t", ":", " ", "a", Lf>>,
     <<"S", "U", "B", "J", "E", "C", "T", ":", Lf>>,
     <<" ", "c", Lf>>,
     <<"R", "e", "f", "e", "r", "e", "n", "c", "e", "s", ":", " ", "<", "a", "@", "x", ">", " ", "<", "b", "@", "y", ">", Lf>>,
     <<"r", "e", "f", "e", "r", "e", "n", "c", "e", "s", ":", "<", ">", "x", "<", "c", "<", "d", ">", " ", ">", "e", Lf>>,
     <<"j", "u", "n", "k", Lf>>,
     <<Lf>>}
    \cup {w.line : w \in WordHeaders}

FieldFiles ==
    {[exists |-> TRUE, bytes |-> Flatten(ls), lines |-> ls] :
        ls \in UNION {[1..n -> FieldLines] : n \in 0..MaxFieldLines}}

InitFields ==
    /\ plist = WholeFile(SetKey(EmptyData, OtherKey, ColsB))
    /\ last = NoCall
    /\ procs = NoProcs
    /\ input \in FieldFiles

SpecFields == InitFields /\ [][NextEml]_vars

\* the header lines that start a header of the name nm, in their order
Occurrences(nm) ==
    SelectSeq([i \in 1..Len(HeaderLines) |->
                  IF /\ HasName(HeaderLines[i])
                     /\ toLowerCaseAscii(trim(slice(HeaderLines[i], 0, indexOf(HeaderLines[i], <<":">>, 0)))) = nm
                  THEN <<i>> ELSE <<>>],
              LAMBDA x : x # <<>>)

\* the unfolded value of the header that starts at line i: its text after
\* the colon and the folded lines that follow it, trimmed
UnfoldedValue(i) ==
    LET hl == HeaderLines
        stops == {k \in (i + 1)..Len(hl) : ~isFolded(hl[k])}
        end == IF stops = {} THEN Len(hl) ELSE (CHOOSE k \in stops : \A j \in stops : k <= j) - 1
    IN trim(slice(hl[i], indexOf(hl[i], <<":">>, 0) + 1, Len(hl[i]))
            \o Joined([k \in 1..(end - i) |-> OneSpace(hl[i + k])], <<>>))

\* the field of a result that reports the header of a name
FieldOf(res, nm) ==
    CASE nm = HeaderNames.MessageId -> res.messageId
      [] nm = HeaderNames.InReplyTo -> res.inReplyTo
      [] nm = HeaderNames.Subject -> res.subject
      [] nm = HeaderNames.From -> res.from
      [] nm = HeaderNames.To -> res.to
      [] nm = HeaderNames.Cc -> res.cc
      [] nm = HeaderNames.Date -> res.date

ScalarNames == {HeaderNames.MessageId, HeaderNames.InReplyTo, HeaderNames.Subject, HeaderNames.From, HeaderNames.To, HeaderNames.Cc, HeaderNames.Date}

\* C21: if a header name occurs k > 1 times in the header section (names
\* compared without regard to case), the value reported for it is the k
\* unfolded values joined by a newline in the order met; no occurrence
\* overwrites or drops another.
C21_DuplicatesJoined ==
    Parsed =>
      \A nm \in ScalarNames :
         LET occ == Occurrences(nm)
         IN Len(occ) > 1 =>
               FieldOf(last.res, nm) =
                  Value(Joined([j \in 1..Len(occ) |-> UnfoldedValue(occ[j][1])], <<Lf>>))

\* the References value of the file: the unfolded values of its References
\* headers joined by newlines and decoded; none without such a header
ReferencesValue ==
    LET occ == Occurrences(HeaderNames.References)
    IN IF occ = <<>> THEN NullValue
       ELSE Value(decodeEncodedWords(Joined([j \in 1..Len(occ) |-> UnfoldedValue(occ[j][1])], <<Lf>>)))

\* the spans of a text v, from left to right and without overlap: a span
\* begins with <, holds at least min characters other than > and ends with
\* the next >
SpansOf(v, min) ==
    LET end(p) == indexOf(v, <<">">>, p + 1)
        valid == {p \in 0..(Len(v) - 1) : v[p + 1] = "<" /\ end(p) # -1 /\ end(p) - p - 1 >= min}
        chosen == CHOOSE c \in SUBSET valid :
                     /\ \A p, q \in c : p < q => end(p) < q
                     /\ \A p \in valid \ c : \E q \in c : q < p /\ p < end(q)
        nth(k) == CHOOSE p \in chosen : Cardinality({q \in chosen : q < p}) = k - 1
    IN [k \in 1..Cardinality(chosen) |-> slice(v, nth(k), end(nth(k)) + 1)]

\* C22 as stated: references is the list, in order of appearance, of every
\* <...> span of the References value, one entry per span including its
\* brackets; it is empty when the header is absent or holds no such span.
C22_EverySpan ==
    Parsed =>
      last.res.references =
         IF ReferencesValue.isNull THEN <<>> ELSE SpansOf(ReferencesValue.v, 0)

\* C22: references is the list, in order of appearance, of every span of the
\* References value that begins with <, holds one or more characters other
\* than > and ends with the next >, found from left to right without
\* overlap, one entry per span including its brackets; it is empty when the
\* header is absent or holds no such span, and text outside the spans never
\* appears in the list.
C22_NonEmptySpans ==
    Parsed =>
      last.res.references =
         IF ReferencesValue.isNull THEN <<>> ELSE SpansOf(ReferencesValue.v, 1)

\* References: <a@x> <b@y> gave the two identifiers
C22_Witness ==
    /\ Parsed
    /\ Len(input.lines) = 1
    /\ ~ReferencesValue.isNull
    /\ last.res.references = <<<<"<", "a", "@", "x", ">">>, <<"<", "b", "@", "y", ">">>>>

\* C23: decodeEncodedWords replaces each =?charset?B?text?= or
\* =?charset?Q?text?= word of a header value by its decoded text (for Q: _
\* becomes a space and =HH the byte with hex code HH) and leaves every other
\* character of the value unchanged; when decoding a word fails (an
\* unsupported charset, a text that is no base64) that word is left exactly
\* as it was.
C23_WordsDecoded ==
    Parsed =>
      \A w \in WordHeaders :
         LET occ == Occurrences(w.name)
             i == occ[1][1]
         IN (/\ Len(occ) = 1
             /\ HeaderLines[i] = Unbroken(w.line)
             /\ (i = Len(HeaderLines) \/ ~isFolded(HeaderLines[i + 1])))
            => FieldOf(last.res, w.name) = Value(trim(w.value))

----------------------------------------------------------------------------
(* parse_eml_headers applied to files longer than the read limit: a head  *)
(* of header text, a long run of bytes "x", and a tail                     *)

LongHeads ==
    {<<>>,
     <<"S", "u", "b", "j", "e", "c", "t", ":", " ", "a", Lf>>,
     <<"S", "u", "b", "j", "e", "c", "t", ":", " ", "a", " ">>}

LongTails ==
    {<<>>,
     <<Lf, Lf, "T", "o", ":", " ", "b", Lf>>,
     <<Lf, "T", "o", ":", " ", "b", Lf>>,
     <<Cr, Lf, Cr, Lf, "C", "c", ":", "c", Lf>>}

LongFiles ==
    {[exists |-> TRUE, head |-> h, pad |-> n, tail |-> tl,
      bytes |-> h \o <<Run(n)>> \o tl] :
        h \in LongHeads, n \in RunLengths, tl \in LongTails}

InitLong ==
    /\ plist = WholeFile(SetKey(EmptyData, OtherKey, ColsB))
    /\ last = NoCall
    /\ procs = NoProcs
    /\ input \in LongFiles

SpecLong == InitLong /\ [][NextEml]_vars

\* the first HEADER_READ_LIMIT bytes of a file: its head, the part of its
\* run and the part of its tail that come before the limit
FirstBytes(f) ==
    LET room == HEADER_READ_LIMIT - Len(f.head)
    IN [head |-> f.head,
        run |-> IF f.pad < room THEN f.pad ELSE room,
        tail |-> IF f.pad < room THEN Take(f.tail, room - f.pad) ELSE <<>>]

FirstText(f) == FirstBytes(f).head \o <<Run(FirstBytes(f).run)>> \o FirstBytes(f).tail

\* C24: parse_eml_headers reads at most the first 65536 bytes of the file:
\* two files that agree on their first 65536 bytes give identical results,
\* and a file whose first 65536 bytes hold no blank-line separator still
\* gives success = true, its header section being the whole truncated buffer.
C24_ReadLimit ==
    (IsEml /\ ~Missing(last.filePath) /\ last.read = "ok") =>
      /\ \A g \in LongFiles :
            FirstBytes(g) = FirstBytes(input) =>
              parseEmlHeaders(last.filePath, g, "ok") = last.res
      /\ (indexOf(FirstText(input), CrLfCrLf, 0) = -1 /\ indexOf(FirstText(input), LfLf, 0) = -1) =>
            last.res.success /\ last.res.headerSection = FirstText(input)

\* a file of more than 65536 bytes was parsed whose To header, and the blank
\* line before it, lie past the limit: the run is cut in the Subject value
C24_Witness ==
    /\ Parsed /\ input.pad = 70000
    /\ input.head # <<>> /\ input.head[Len(input.head)] = " "
    /\ indexOf(input.tail, <<"T", "o", ":">>, 0) # -1
    /\ last.res.to.isNull
    /\ last.res.subject = Value(<<"a", " ", Run(HEADER_READ_LIMIT - Len(input.head))>>)

----------------------------------------------------------------------------
(* parse_eml_headers applied to a path without a file and to files        *)
(* without header lines                                                    *)

\* no line of the file is a header line: none has a colon after a name
\* that starts the line
NoHeaderLine == \A i \in 1..Len(input.lines) : ~HasName(Unbroken(input.lines[i]))

\* C25: parse_eml_headers on a missing file returns success = false with the
\* path; on an existing readable file with no recognisable header line, an
\* empty file included, it returns success = true with messageId, inReplyTo,
\* subject, from, to, cc and date all null and references = [].
C25_MissingOrEmpty ==
    (IsEml /\ ~Missing(last.filePath)) =>
      /\ ~input.exists =>
            /\ ~last.res.success
            /\ last.res.filePath = last.filePath
            /\ last.res.error.kind = "missing"
      /\ (input.exists /\ last.read = "ok" /\ NoHeaderLine) =>
            /\ last.res.success
            /\ \A nm \in ScalarNames : FieldOf(last.res, nm) = NullValue
            /\ last.res.references = <<>>

\* a file of lines of which none is a header line was parsed
C25_Witness ==
    /\ Parsed /\ NoHeaderLine
    /\ \E i \in 1..Len(input.lines) : Unbroken(input.lines[i]) = <<":", "x">>
    /\ \E i \in 1..Len(input.lines) : isFolded(Unbroken(input.lines[i]))
    /\ last.res.subject.isNull /\ last.res.references = <<>>

----------------------------------------------------------------------------
(* The enumerators applied to a block that holds nested blocks: a block   *)
(* is a list of keys with their values, a value being a text of some type *)
(* or a block of its own                                                   *)

\* the most keys at depth 0 of a block
MaxItems == 3

TagNames ==
    [string |-> <<"s", "t", "r", "i", "n", "g">>, date |-> <<"d", "a", "t", "e">>,
     integer |-> <<"i", "n", "t", "e", "g", "e", "r">>, real |-> <<"r", "e", "a", "l">>]

Item(key, kind, v) == [key |-> key, kind |-> kind, v |-> v, items |-> <<>>]
DictItem(key, items) == [key |-> key, kind |-> "dict", v |-> <<>>, items |-> items]

\* what plutil prints for the keys and values of a block, two levels deep
RenderScalar(it) ==
    KeyTag(it.key) \o NewLine \o
    (IF it.kind = "bool" THEN <<"<">> \o it.v \o <<"/", ">">>
     ELSE <<"<">> \o TagNames[it.kind] \o <<">">> \o it.v
          \o <<"<", "/">> \o TagNames[it.kind] \o <<">">>)

RECURSIVE RenderItems(_)
RenderItems(items) ==
    IF items = <<>> THEN <<>>
    ELSE (IF Head(items).kind = "dict"
          THEN KeyTag(Head(items).key) \o NewLine \o DictOpen
               \o RenderItems(Head(items).items) \o DictClose
          ELSE RenderScalar(Head(items)))
         \o RenderItems(Tail(items))

True == <<"t", "r", "u", "e">>
False == <<"f", "a", "l", "s", "e">>

\* a sync block, one with a block nested before its own keys, a block of
\* another key that holds the keys the enumerators look for, and one that
\* holds none of them
SyncPlain ==
    DictItem(PlistKeys.Sync, <<Item(PlistKeys.UUID, "string", <<"1">>), Item(PlistKeys.Date, "date", <<"D">>)>>)
SyncDeep ==
    DictItem(PlistKeys.Sync,
             <<DictItem(<<"m">>, <<Item(PlistKeys.UUID, "string", <<"8">>), Item(PlistKeys.Date, "date", <<"F">>)>>),
               Item(PlistKeys.UUID, "string", <<"1">>), Item(PlistKeys.Date, "date", <<"D">>)>>)
RuleDict ==
    DictItem(<<"r">>,
             <<Item(PlistKeys.Name, "string", <<"n">>), Item(PlistKeys.Enabled, "bool", True),
               Item(PlistKeys.IndexOffset, "integer", <<"7">>),
               Item(PlistKeys.LastExecution, "real", <<"9">>),
               Item(PlistKeys.UseUUIDKey, "bool", True),
               DictItem(PlistKeys.Sync, <<Item(PlistKeys.UUID, "string", <<"9">>), Item(PlistKeys.Date, "date", <<"E">>)>>)>>)
PlainDict == DictItem(<<"r">>, <<Item(<<"k">>, "string", <<"v">>)>>)

TopItems ==
    {Item(PlistKeys.Name, "string", <<"a">>), Item(PlistKeys.Enabled, "bool", False),
     Item(PlistKeys.IndexOffset, "integer", <<"3">>),
     SyncPlain, SyncDeep, RuleDict, PlainDict}

\* the blocks: up to MaxItems keys, no key twice
NestedBlocks ==
    {b \in UNION {[1..n -> TopItems] : n \in 0..MaxItems} :
        \A i, j \in 1..Len(b) : i # j => b[i].key # b[j].key}

NestedFiles ==
    {[exists |-> TRUE, items |-> b,
      doc |-> <<ArrayOpen, DictOpen, RenderItems(b), DictClose, ArrayClose>>] :
        b \in NestedBlocks}

InitNested ==
    /\ plist = WholeFile(SetKey(EmptyData, OtherKey, ColsB))
    /\ last = NoCall
    /\ procs = NoProcs
    /\ input \in NestedFiles

SpecNested == InitNested /\ [][NextLists]_vars

\* the value of a key among the keys of one block, for a type: none when
\* the block has no such key or its value is of another type
ValueAt(items, key, kind) ==
    LET hits == {i \in 1..Len(items) : items[i].key = key /\ items[i].kind = kind}
    IN IF hits = {} THEN NullValue ELSE Value(items[CHOOSE i \in hits : TRUE])

\* the path lookup sync/key
SyncLookup(items, key, kind) ==
    IF ValueAt(items, PlistKeys.Sync, "dict").isNull THEN NullValue
    ELSE ValueAt(ValueAt(items, PlistKeys.Sync, "dict").v.items, key, kind)

\* a reported text, truth value or number is that of the value looked up
SameText(reported, found) ==
    reported.isNull = found.isNull /\ (~found.isNull => reported.v = found.v.v)
SameBool(reported, found) ==
    reported.isNull = found.isNull /\ (~found.isNull => reported.v = (found.v.v = True))
SameNumber(reported, found) ==
    reported.isNull = found.isNull /\ (~found.isNull => reported.v = parseDigits(found.v.v))

\* C26: for every top-level block, the values an enumerator reports are read
\* at the nesting level the spec names: name, Enabled, IndexOffset,
\* LastExecution and UseUUIDKey are the values of those keys at depth 0 of
\* the block (a same-named key inside a nested sub-block is never reported
\* in their place), and uuid and syncDate equal the path lookups sync/UUID
\* and sync/date.
C26_DepthZeroFields ==
    Listing =>
      \A i \in 1..Len(last.res.entries.v) :
         LET e == last.res.entries.v[i]
             b == input.items
         IN /\ e.name = nameOrDefault(IF ValueAt(b, PlistKeys.Name, "string").isNull THEN NullValue
                                      ELSE Value(ValueAt(b, PlistKeys.Name, "string").v.v))
            /\ e.uuid = uuidOrDefault(IF SyncLookup(b, PlistKeys.UUID, "string").isNull THEN NullValue
                                      ELSE Value(SyncLookup(b, PlistKeys.UUID, "string").v.v))
            /\ SameText(e.syncDate, SyncLookup(b, PlistKeys.Date, "date"))
            /\ SameBool(e.useUuidKey, ValueAt(b, PlistKeys.UseUUIDKey, "bool"))
            /\ last.op = "rules" =>
                  /\ SameBool(e.enabled, ValueAt(b, PlistKeys.Enabled, "bool"))
                  /\ SameNumber(e.indexOffset, ValueAt(b, PlistKeys.IndexOffset, "integer"))
                  /\ SameNumber(e.lastExecution, ValueAt(b, PlistKeys.LastExecution, "real"))

----------------------------------------------------------------------------
(* extractSubDictAfterKey applied to texts of a few tags *)

\* the longest text, in tags and pieces of text
MaxSub == 5

SubKey == <<"k">>
SubKeys == {SubKey, <<"o">>}

\* what a text is made of: the two dict tags, the tags of two keys, white
\* space and other text
SubPieces == {DictOpen, DictClose, <<"x">>, NewLine} \cup {KeyTag(k) : k \in SubKeys}

SubDocs == UNION {[1..n -> SubPieces] : n \in 0..MaxSub}

InitSub ==
    /\ plist = WholeFile(SetKey(EmptyData, OtherKey, ColsB))
    /\ last = NoCall
    /\ procs = NoProcs
    /\ input \in {[exists |-> TRUE, doc |-> d] : d \in SubDocs}

ExtractSubDictAfterKey(keyName) ==
    /\ last = NoCall
    /\ last' = [op |-> "sub", keyName |-> keyName,
                res |-> extractSubDictAfterKey(Flatten(input.doc), keyName)]
    /\ UNCHANGED <<plist, procs, input>>

NextSub ==
    \/ \E keyName \in SubKeys : ExtractSubDictAfterKey(keyName)
    \/ Reply

SpecSub == InitSub /\ [][NextSub]_vars

\* the piece after piece i that is no white space (Len(d) + 1 if none)
RECURSIVE NextPiece(_, _)
NextPiece(d, i) ==
    IF i + 1 <= Len(d) /\ d[i + 1] = NewLine THEN NextPiece(d, i + 1) ELSE i + 1

\* the pieces <dict> that follow the tag of the key, white space apart
KeyedDicts(d, keyName) ==
    {j \in 1..Len(d) :
        /\ d[j] = DictOpen
        /\ \E i \in 1..(j - 1) : d[i] = KeyTag(keyName) /\ NextPiece(d, i) = j}

\* the nesting depth after piece m, counted from the <dict> at piece j
RECURSIVE DepthFrom(_, _, _)
DepthFrom(d, j, m) ==
    IF m = j THEN 1
    ELSE DepthFrom(d, j, m - 1)
         + (IF d[m] = DictOpen THEN 1 ELSE IF d[m] = DictClose THEN -1 ELSE 0)

\* the pieces </dict> that match the <dict> at piece j: at most one
MatchingClose(d, j) ==
    {m \in (j + 1)..Len(d) :
        /\ d[m] = DictClose /\ DepthFrom(d, j, m) = 0
        /\ \A n \in j..(m - 1) : DepthFrom(d, j, n) > 0}

\* C27: extractSubDictAfterKey(content, K) is nesting-depth-aware: when
\* <key>K</key> is followed by <dict>, it returns the text between that
\* <dict> and its matching </dict> (not the first </dict> after it), so that
\* dicts nested in the sub-block are returned whole; it returns null when
\* the key, the <dict> after it or the matching close is absent.
C27_SubDict ==
    last.op = "sub" =>
      LET d == input.doc
          opens == KeyedDicts(d, last.keyName)
          j == CHOOSE o \in opens : \A p \in opens : o <= p
      IN IF opens = {} \/ MatchingClose(d, j) = {} THEN last.res.isNull
         ELSE /\ ~last.res.isNull
              /\ \A m \in MatchingClose(d, j) : last.res.v = Flatten(SubSeq(d, j + 1, m - 1))

\* the sub-block of a key was returned with a block nested in it
C27_Witness ==
    /\ last.op = "sub" /\ ~last.res.isNull
    /\ indexOf(last.res.v, DictOpen, 0) # -1
    /\ indexOf(last.res.v, DictClose, 0) > indexOf(last.res.v, DictOpen, 0)

----------------------------------------------------------------------------
(* extractTopLevelDicts applied to texts that are not well formed *)

\* the complete depth-0 blocks of d in the order of the text, each as the
\* pieces between its <dict> and its matching </dict>
RECURSIVE CompleteBlocks(_, _)
CompleteBlocks(d, from) ==
    LET next == {b \in TopBlocks(d) : b[1] >= from}
        first == CHOOSE b \in next : \A c \in next : b[1] <= c[1]
    IN IF next = {} THEN <<>>
       ELSE <<Flatten(SubSeq(d, first[1] + 1, first[2] - 1))>> \o CompleteBlocks(d, first[2] + 1)

\* piece i opens a block at depth 0 that no </dict> closes
Unterminated(d, i) ==
    /\ d[i] = DictOpen /\ DepthAfter(d, i - 1) = 0
    /\ \A m \in i..Len(d) : DepthAfter(d, m) > 0

\* C28: for every input string, well formed or not, extractTopLevelDicts
\* ends with a result; when a block has no matching close, the result is
\* exactly the complete top-level blocks that precede the unterminated one,
\* with nothing from the unterminated block or after it.
C28_UnterminatedDropped ==
    last.op = "extract" =>
      /\ last.res = CompleteBlocks(input.doc, 1)
      /\ \A i \in 1..Len(input.doc) :
            Unterminated(input.doc, i) =>
              /\ \A b \in TopBlocks(input.doc) : b[2] < i
              /\ Len(last.res) = Cardinality(TopBlocks(input.doc))

\* a text with a complete block and, after it, a block without its close
\* that holds a complete block was taken apart: the first block alone is
\* returned
C28_Witness ==
    /\ last.op = "extract"
    /\ \E i \in 1..Len(input.doc) :
          /\ Unterminated(input.doc, i)
          /\ \E m \in (i + 1)..Len(input.doc) : input.doc[m] = DictClose
    /\ last.res = <<<<"x">>>>

----------------------------------------------------------------------------
(* copy_column_layout calls that fail *)

\* C29: whenever copy_column_layout returns success = false, for any reason
\* (missing parameter, unresolved or ambiguous source, failed copy command,
\* failed verification), the preference store is unchanged from before the
\* call: no failure result follows a completed write.
C29_FailureLeavesStore ==
    (IsCopy /\ ~last.res.success) => plist = last.pre

----------------------------------------------------------------------------
(* copy_column_layout calls that run at the same time *)

\* the copies the clients ask for: two with the source "j" and different
\* targets, and one whose source is not found
CopyPairs == {<<NameLowerJ, NameJ>>, <<NameLowerJ, NameJa>>, <<NameOutlineJ, NameJ>>}

NextCopies ==
    \E p \in Procs :
        \/ \E c \in CopyPairs : StartCopy(p, c[1], c[2])
        \/ ReadKey(p)
        \/ ListNames(p)
        \/ ListExamples(p)
        \/ Load(p)
        \/ Open(p)
        \/ Dump(p)
        \/ ReplyConc(p)

SpecCopies == InitConc /\ [][NextCopies]_vars

\* the call of p is a copy that has returned success = true
CopySucceeded(p) ==
    /\ procs[p].op = "copy" /\ procs[p].pc = "done"
    /\ procs[p].res.success

\* C30: no lost update between copies with different targets: if two
\* copy_column_layout calls with distinct target keys, and sources whose
\* keys neither writes, run concurrently and both return success = true,
\* then once both have finished the store holds the copied layout keys of
\* both targets.
C30_NoLostUpdate ==
    \A p, q \in Procs :
        (/\ p # q /\ CopySucceeded(p) /\ CopySucceeded(q)
         /\ procs[p].res.resolvedTargetKey # procs[q].res.resolvedTargetKey
         /\ \A r, s \in {p, q} :
               procs[r].res.resolvedSourceKey # procs[s].res.resolvedTargetKey) =>
          /\ plist.bytes = "whole"
          /\ \A i \in 1..Len(procs[p].res.keysCopied) :
                LET k == procs[p].res.keysCopied[i]
                IN /\ k \in DOMAIN plist.data
                   /\ plist.data[k] = plist.data[<<k[1], procs[p].res.resolvedSourceKey>>]

====
